---- MODULE Spec2Model ----
(***************************************************************************)
(* A model of the Azure resource metadata viewer's ARM client              *)
(* (src/src/api/arm.ts), of its directory lookup getPrincipalsByIds (the   *)
(* listing in src/AUTHENTICATION-SETUP.md) and of the dashboard's query    *)
(* handler with its owner aggregation (src/src/components/Dashboard.tsx).  *)
(*                                                                         *)
(* Strings that the code compares or takes apart are modelled by what the  *)
(* code does with them: a URL is an opaque name, a resource id or a scope  *)
(* is the sequence of its path segments ("/subscriptions/s1" is            *)
(* <<"subscriptions", "s1">>), an error message is a name whose marker     *)
(* substrings are tabulated.                                               *)
(***************************************************************************)
EXTENDS Integers, Sequences, FiniteSets, TLC

VARIABLES
    \* fetchAllPages(url, accessToken)
    url,          \* the starting URL the caller passed
    next,         \* `next`: the URL of the coming request, or a falsy value
    items,        \* `items`: the accumulator
    requests,     \* the URLs of the GET requests issued so far, in order
    responses,    \* the outcome of each GET request, in order
    fpc,          \* "loop" | "returned" | "threw"
    fresult,      \* <<>> while nothing was returned, <<items>> once returned
    ferror,       \* <<>> while nothing was thrown, <<error>> once thrown
    \* deleteResource(resourceId, accessToken)
    resourceId,         \* the path segments of the resource id
    uniqueApiVersions,  \* the candidate API versions, in the order tried
    attempts,           \* the DELETE requests issued so far: version and outcome
    lastError,          \* `lastError`: <<>> for null, else <<error>>
    dpc,                \* "loop" | "returned" | "threw"
    thrown,             \* <<>> while nothing was thrown, <<error>> once thrown
    \* onQuery, from `await Promise.all(subscriptionPromises)` on
    selectedSubscriptions,  \* the ids of the selected subscriptions, in order
    subscriptionResults,    \* per subscription: resources and ownerAssignments
    principalIdToName,      \* the directory objects of the Graph step, by id
    allResources,           \* the result list: resources with their owners
    qpc,                    \* where onQuery stands: "ready", "armSilent",
                            \* "armPopup", "fetching", "fetched",
                            \* "graphSilent", "graphPopup", "resolving",
                            \* "resolved", "done", "failed"
    \* fetchAllOwnerRoleAssignments(subscriptionId, accessToken)
    ownerSubscriptionId, \* `subscriptionId`: whose assignments are fetched
    roleDefinitionIdOf,  \* properties.roleDefinitionId of each fetched item
    opc,                 \* "awaiting" | "returned" | "threw"
    oresult,             \* <<>> while nothing was returned, else <<list>>
    oerror,              \* <<>> while nothing was thrown, else <<error>>
    \* getPrincipalsByIds(accessToken, ids)
    ids,         \* the list of principal ids the caller passed
    grequests,   \* the bodies of the POST requests issued so far
    gresponse,   \* <<>> while the request is unanswered, else <<outcome>>
    gpc,         \* "called" | "awaiting" | "returned" | "threw"
    gresult,     \* <<>> while nothing was returned, else <<mapping>>
    \* Dashboard: React state and the promises of a running onQuery
    loading,               \* `loading`
    stateError,            \* `error`: <<>> for null, else <<what is shown>>
    stateItems,            \* `items`: the result list the table shows
    subscriptionPromises,  \* per subscription: the state of its two fetches
    tokenRequests,         \* the token requests made to MSAL, in order
    \* parseResourceGroupFromId(resourceId)
    parsedId,    \* `resourceId`: the path segments of the id
    ppc,         \* "called" | "returned"
    presult,     \* the value returned, Undefined for none
    \* AzureAccountManager
    instance,             \* the static `instance`: 0 while unset, else
                          \* the number of the object it holds
    constructed,          \* how many AzureAccountManager objects were made
    handles,              \* the objects getInstance has returned
    managerSubscriptions, \* `this.subscriptions`
    managerTenants,       \* `this.tenants`
    calls,                \* the getSubscriptions and getTenants calls made
    completions,          \* the calls that have returned, in that order
    mread,                \* <<>>, else <<the last read of the cache>>
    \* Dashboard: the account selection
    account,         \* `account`: whether accounts[0] is defined
    tenants,         \* `tenants`
    subscriptions,   \* `subscriptions`
    selectedTenant,  \* `selectedTenant`: <<>> for null, else <<tenant>>
    loadingAccounts, \* `loadingAccounts`
    loads,           \* the running loadAzureAccounts calls: what each
                     \* closure holds of the selection
    queries,         \* the running onQuery calls: the selectedSubscriptions
                     \* each closure holds
    settled          \* <<>> since a load or a query was started, else
                     \* <<which of them ended last, and how>>

fvars == <<url, next, items, requests, responses, fpc, fresult, ferror>>
dvars == <<resourceId, uniqueApiVersions, attempts, lastError, dpc, thrown>>

qvars == <<selectedSubscriptions, subscriptionResults, principalIdToName,
           allResources, qpc>>

ovars == <<ownerSubscriptionId, roleDefinitionIdOf, opc, oresult, oerror>>

gvars == <<ids, grequests, gresponse, gpc, gresult>>

hvars == <<loading, stateError, stateItems, subscriptionPromises,
           tokenRequests>>

pvars == <<parsedId, ppc, presult>>

mvars == <<instance, constructed, handles, managerSubscriptions,
           managerTenants, calls, completions, mread>>

avars == <<account, tenants, subscriptions, selectedTenant,
           loadingAccounts, loads, queries, settled>>

\* the variables of the account manager and the account selection
zvars == <<mvars, avars>>

\* the variables of the parts that stand beside the query
yvars == <<pvars, zvars>>

\* the variables of the operations modelled after the ARM client's three
xvars == <<ovars, gvars, hvars, yvars>>

vars == <<fvars, dvars, qvars, xvars>>

----------------------------------------------------------------------------
(* JavaScript values *)

\* `undefined`, for a field a response does not carry
Undefined == "undefined"

\* the truthiness of a string-or-undefined value: `while (next)`, `if (!id)`, `a || b`
Truthy(s) == s # Undefined /\ s # ""

----------------------------------------------------------------------------
(* fetchAllPages: src/src/api/arm.ts 52-76 *)

\* the most GET requests one modelled fetch issues
MaxPages == 3

\* the URLs the caller and the server's nextLink draw from
Urls == {"u1", "u2"}

\* `value` of a page, when it is an array
PageValues == {<<>>, <<"a">>, <<"b">>, <<"a", "b">>}

\* a 2xx response body { value, nextLink? }; isArray is Array.isArray(value)
OkResponses ==
    [ok : {TRUE}, isArray : {TRUE}, value : PageValues,
     nextLink : Urls \cup {"", Undefined}, status : {200}]
    \cup
    [ok : {TRUE}, isArray : {FALSE}, value : {<<>>},
     nextLink : Urls \cup {"", Undefined}, status : {200}]

\* a rejected request: a non-2xx status, or no response at all (status 0)
ErrResponses ==
    [ok : {FALSE}, isArray : {FALSE}, value : {<<>>}, nextLink : {Undefined},
     status : {0, 400, 401, 403, 404, 500}]

\* a fetch that puts each new page in front of the pages it already holds
PushValueFront(acc, resp) == IF resp.isArray THEN resp.value \o acc ELSE acc

\* `if (Array.isArray(data.value)) items.push(...data.value)`
PushValue(acc, resp) == IF resp.isArray THEN acc \o resp.value ELSE acc

\* one turn of the loop whose request succeeds; the loop test that follows is
\* part of the turn: with a falsy nextLink the function returns `items`
FetchPageOk(resp) ==
    /\ fpc = "loop"
    /\ Truthy(next)
    /\ Len(requests) < MaxPages
    /\ resp.ok
    /\ requests' = Append(requests, next)
    /\ responses' = Append(responses, resp)
    /\ items' = PushValue(items, resp)
    /\ next' = resp.nextLink
    /\ IF Truthy(resp.nextLink)
         THEN fpc' = "loop" /\ fresult' = fresult
         ELSE fpc' = "returned" /\ fresult' = <<items'>>
    /\ UNCHANGED <<url, ferror, dvars, qvars, xvars>>

\* a fetch that answers a rejected request with the pages it already holds
FetchPageFailPartial(resp) ==
    /\ fpc = "loop"
    /\ Truthy(next)
    /\ Len(requests) < MaxPages
    /\ ~resp.ok
    /\ requests' = Append(requests, next)
    /\ responses' = Append(responses, resp)
    /\ fpc' = "returned"
    /\ fresult' = <<items>>
    /\ UNCHANGED <<url, next, items, ferror, dvars, qvars, xvars>>

\* one turn of the loop whose request is rejected: the catch block rethrows
FetchPageFail(resp) ==
    /\ fpc = "loop"
    /\ Truthy(next)
    /\ Len(requests) < MaxPages
    /\ ~resp.ok
    /\ requests' = Append(requests, next)
    /\ responses' = Append(responses, resp)
    /\ fpc' = "threw"
    /\ ferror' = <<[kind |-> "API request failed", status |-> resp.status]>>
    /\ UNCHANGED <<url, next, items, fresult, dvars, qvars, xvars>>

\* no deletion is modelled beside the fetch
DeleteIdle ==
    /\ resourceId = <<>>
    /\ uniqueApiVersions = <<>>
    /\ attempts = <<>>
    /\ lastError = <<>>
    /\ dpc = "idle"
    /\ thrown = <<>>

\* no query is modelled beside the fetch
QueryIdle ==
    /\ selectedSubscriptions = <<>>
    /\ subscriptionResults = <<>>
    /\ principalIdToName = {}
    /\ allResources = <<>>
    /\ qpc = "idle"

\* no role-assignment fetch is modelled
OwnerIdle ==
    /\ ownerSubscriptionId = ""
    /\ roleDefinitionIdOf = <<>>
    /\ opc = "idle"
    /\ oresult = <<>>
    /\ oerror = <<>>

\* no directory lookup is modelled
GraphIdle ==
    /\ ids = <<>>
    /\ grequests = <<>>
    /\ gresponse = <<>>
    /\ gpc = "idle"
    /\ gresult = <<>>

\* the dashboard's state plays no part
HandlerIdle ==
    /\ loading = FALSE
    /\ stateError = <<>>
    /\ stateItems = <<>>
    /\ subscriptionPromises = <<>>
    /\ tokenRequests = <<>>

\* no id is parsed
ParseIdle ==
    /\ parsedId = <<>>
    /\ ppc = "idle"
    /\ presult = Undefined

\* the module of the account manager is not evaluated
ManagerIdle ==
    /\ instance = 0
    /\ constructed = 0
    /\ handles = {}
    /\ managerSubscriptions = <<>>
    /\ managerTenants = <<>>
    /\ calls = <<>>
    /\ completions = <<>>
    /\ mread = <<>>

\* the Dashboard is not mounted
DashIdle ==
    /\ account = FALSE
    /\ tenants = <<>>
    /\ subscriptions = <<>>
    /\ selectedTenant = <<>>
    /\ loadingAccounts = FALSE
    /\ loads = <<>>
    /\ queries = <<>>
    /\ settled = <<>>

\* nothing of the account manager and the account selection
ZIdle == ManagerIdle /\ DashIdle

\* nothing of the parts that stand beside the query
YIdle == ParseIdle /\ ZIdle

\* nothing of the operations modelled further down
XIdle == OwnerIdle /\ GraphIdle /\ HandlerIdle /\ YIdle

FetchInit ==
    /\ DeleteIdle
    /\ QueryIdle
    /\ XIdle
    /\ url \in Urls
    /\ next = url
    /\ items = <<>>
    /\ requests = <<>>
    /\ responses = <<>>
    /\ fpc = "loop"
    /\ fresult = <<>>
    /\ ferror = <<>>

FetchNext ==
    \/ \E resp \in OkResponses : FetchPageOk(resp)
    \/ \E resp \in ErrResponses : FetchPageFail(resp)

SpecFetch == FetchInit /\ [][FetchNext]_vars

\* a response that carries a continuation link the loop follows
HasNextLink(resp) == resp.ok /\ resp.nextLink \notin {"", Undefined}

\* the value arrays of the pages, one after the other in page order
RECURSIVE ConcatPages(_)
ConcatPages(pages) ==
    IF pages = <<>> THEN <<>>
    ELSE (IF Head(pages).isArray THEN Head(pages).value ELSE <<>>)
         \o ConcatPages(Tail(pages))

\* C1: a fetch over a chain of N successful pages issues exactly N GET
\* requests, the first to the starting URL and each later one to the nextLink
\* of the response before it; no request follows a response without a
\* nextLink; and the fetch returns the pages' value arrays concatenated in
\* page order.
C1_FetchAllPagesChain ==
    /\ \A i \in 1..Len(requests) :
          requests[i] = IF i = 1 THEN url ELSE responses[i - 1].nextLink
    /\ \A i \in 1..(Len(responses) - 1) : HasNextLink(responses[i])
    /\ fpc = "returned" =>
          /\ Len(requests) >= 1
          /\ Len(responses) = Len(requests)
          /\ \A i \in 1..Len(responses) : responses[i].ok
          /\ ~HasNextLink(responses[Len(responses)])
          /\ fresult = <<ConcatPages(responses)>>
          /\ ferror = <<>>

\* a fetch of three pages that returned items of more than one page
C1_Witness ==
    /\ fpc = "returned"
    /\ Len(requests) = 3
    /\ fresult = << <<"a", "b", "a">> >>
    /\ requests[2] # requests[3]

\* C2: a rejected page request, at whatever position of the chain, is the
\* last request of the fetch; the fetch raises and returns nothing, the items
\* of the pages before it included.
C2_FetchFailureDiscardsAll ==
    /\ \A i \in 1..Len(responses) :
          ~responses[i].ok =>
              /\ i = Len(responses)
              /\ Len(requests) = i
              /\ fpc = "threw"
              /\ fresult = <<>>
              /\ ferror = <<[kind |-> "API request failed",
                             status |-> responses[i].status]>>
    /\ fpc = "threw" =>
          Len(responses) >= 1 /\ ~responses[Len(responses)].ok

\* the third request is rejected with 403 after two pages with items
C2_Witness ==
    /\ fpc = "threw"
    /\ Len(requests) = 3
    /\ responses[3].status = 403
    /\ items = <<"a", "b">>

----------------------------------------------------------------------------
(* fetchAllOwnerRoleAssignments: src/src/api/arm.ts 38-50 *)

OWNER_ROLE_DEFINITION_GUID == "8e3af657-a8ff-443c-a75c-2fe8c4bcb635"

\* the GUID of another built-in role (Contributor)
OtherRoleDefinitionGuid == "b24988ac-6180-42a0-ab88-20f7382dd24c"

\* `/subscriptions/${subscriptionId}/providers/Microsoft.Authorization/
\* roleDefinitions/${guid}`, as path segments
RoleDefinitionId(subscription, guid) ==
    <<"subscriptions", subscription, "providers", "Microsoft.Authorization",
      "roleDefinitions", guid>>

\* `ownerRoleDefinitionId`
OwnerRoleDefinitionId(subscription) ==
    RoleDefinitionId(subscription, OWNER_ROLE_DEFINITION_GUID)

\* the roleDefinitionId values a fetched assignment may carry: the Owner role
\* of the queried or of another subscription, another role, and the Owner
\* role's id without the subscription prefix
RoleDefinitionIds ==
    { OwnerRoleDefinitionId("s1"),
      OwnerRoleDefinitionId("s2"),
      RoleDefinitionId("s1", OtherRoleDefinitionGuid),
      <<"providers", "Microsoft.Authorization", "roleDefinitions",
        OWNER_ROLE_DEFINITION_GUID>> }

\* a filter that compares the role's GUID only
IsOwnerAssignmentByGuid(assignment, subscription) ==
    LET id == roleDefinitionIdOf[assignment]
    IN  id[Len(id)] = OWNER_ROLE_DEFINITION_GUID

\* `assignment.properties.roleDefinitionId === ownerRoleDefinitionId`
IsOwnerAssignment(assignment, subscription) ==
    roleDefinitionIdOf[assignment] = OwnerRoleDefinitionId(subscription)

\* the fetch returned: the list is filtered and returned
OwnerFetchReturns ==
    /\ opc = "awaiting"
    /\ fpc = "returned"
    /\ oresult' = <<SelectSeq(fresult[1],
                       LAMBDA a : IsOwnerAssignment(a, ownerSubscriptionId))>>
    /\ opc' = "returned"
    /\ UNCHANGED <<ownerSubscriptionId, roleDefinitionIdOf, oerror,
                   fvars, dvars, qvars, gvars, hvars, yvars>>

\* the fetch threw: the await rethrows its error
OwnerFetchThrows ==
    /\ opc = "awaiting"
    /\ fpc = "threw"
    /\ oerror' = ferror
    /\ opc' = "threw"
    /\ UNCHANGED <<ownerSubscriptionId, roleDefinitionIdOf, oresult,
                   fvars, dvars, qvars, gvars, hvars, yvars>>

\* the state at `await fetchAllPages(url, accessToken)`; the items "a" and
\* "b" of the pages are role assignments
OwnerInit ==
    /\ YIdle
    /\ DeleteIdle
    /\ QueryIdle
    /\ GraphIdle
    /\ HandlerIdle
    /\ url = "u1"
    /\ next = url
    /\ items = <<>>
    /\ requests = <<>>
    /\ responses = <<>>
    /\ fpc = "loop"
    /\ fresult = <<>>
    /\ ferror = <<>>
    /\ ownerSubscriptionId = "s1"
    /\ roleDefinitionIdOf \in [{"a", "b"} -> RoleDefinitionIds]
    /\ opc = "awaiting"
    /\ oresult = <<>>
    /\ oerror = <<>>

OwnerNext ==
    \/ \E resp \in OkResponses : FetchPageOk(resp)
    \/ \E resp \in ErrResponses : FetchPageFail(resp)
    \/ OwnerFetchReturns
    \/ OwnerFetchThrows

SpecOwner == OwnerInit /\ [][OwnerNext]_vars

\* C12: fetchAllOwnerRoleAssignments returns the fetched role assignments, in
\* fetch order, whose roleDefinitionId equals '/subscriptions/{subscription}/
\* providers/Microsoft.Authorization/roleDefinitions/8e3af657-a8ff-443c-a75c-
\* 2fe8c4bcb635' for the queried subscription and drops the others; it raises
\* only when the paginated fetch raises.
C12_OwnerAssignmentsFiltered ==
    LET owner == <<"subscriptions", ownerSubscriptionId, "providers",
                   "Microsoft.Authorization", "roleDefinitions",
                   "8e3af657-a8ff-443c-a75c-2fe8c4bcb635">>
        fetched == ConcatPages(responses)
        kept == { i \in 1..Len(fetched) : roleDefinitionIdOf[fetched[i]] = owner }
    IN  /\ opc = "returned" =>
              /\ fpc = "returned"
              /\ Len(oresult[1]) = Cardinality(kept)
              /\ \A n \in 1..Len(oresult[1]) :
                    \E i \in kept :
                       /\ oresult[1][n] = fetched[i]
                       /\ Cardinality({ j \in kept : j < i }) = n - 1
        /\ opc = "threw" => fpc = "threw" /\ oerror = ferror /\ oerror # <<>>
        /\ fpc = "returned" => opc # "threw"

\* a list returned with an assignment kept between two dropped ones, one of
\* them the Owner role of another subscription
C12_Witness ==
    /\ opc = "returned"
    /\ Len(fresult[1]) >= 3
    /\ Len(oresult[1]) >= 1
    /\ Len(oresult[1]) < Len(fresult[1])
    /\ \E a \in {"a", "b"} :
          roleDefinitionIdOf[a] = OwnerRoleDefinitionId("s2")

(* getApiVersionForResource, deleteResource: src/src/api/arm.ts 88-258 *)

\* `apiVersions`: <<provider, resource type, API version>>
apiVersions ==
    { <<"Microsoft.Sql", "servers", "2021-11-01">>,
      <<"Microsoft.Sql", "databases", "2021-11-01">>,
      <<"Microsoft.Sql", "servers/databases", "2021-11-01">>,
      <<"Microsoft.Storage", "storageAccounts", "2021-09-01">>,
      <<"Microsoft.Compute", "virtualMachines", "2021-11-01">>,
      <<"Microsoft.Compute", "disks", "2021-12-01">>,
      <<"Microsoft.Compute", "images", "2021-12-01">>,
      <<"Microsoft.Network", "virtualNetworks", "2021-05-01">>,
      <<"Microsoft.Network", "networkInterfaces", "2021-05-01">>,
      <<"Microsoft.Network", "publicIPAddresses", "2021-05-01">>,
      <<"Microsoft.Network", "loadBalancers", "2021-05-01">>,
      <<"Microsoft.Network", "networkSecurityGroups", "2021-05-01">>,
      <<"Microsoft.Web", "sites", "2021-03-01">>,
      <<"Microsoft.Web", "serverfarms", "2021-03-01">>,
      <<"Microsoft.KeyVault", "vaults", "2021-10-01">>,
      <<"Microsoft.Resources", "resourceGroups", "2021-04-01">>,
      <<"Microsoft.Resources", "deployments", "2021-04-01">>,
      <<"Microsoft.ContainerService", "managedClusters", "2021-11-01">>,
      <<"Microsoft.DBforPostgreSQL", "servers", "2021-06-01">>,
      <<"Microsoft.DBforPostgreSQL", "flexibleServers", "2021-06-01">>,
      <<"Microsoft.DBforMySQL", "servers", "2021-05-01">>,
      <<"Microsoft.DBforMySQL", "flexibleServers", "2021-05-01">>,
      <<"Microsoft.CognitiveServices", "accounts", "2021-10-01">>,
      <<"Microsoft.Insights", "components", "2020-02-02">>,
      <<"Microsoft.Insights", "actionGroups", "2021-09-01">>,
      <<"Microsoft.OperationalInsights", "workspaces", "2021-12-01">> }

\* the generic default API version
DefaultApiVersion == "2021-04-01"

\* the places where /\/providers\/([^\/]+)\/([^\/]+)/ matches: a "providers"
\* segment followed by two non-empty segments
ProviderMatches(segs) ==
    { i \in 1..(Len(segs) - 2) :
        segs[i] = "providers" /\ segs[i + 1] # "" /\ segs[i + 2] # "" }

\* a lookup that takes the last '/providers/{provider}/{type}' segment
getApiVersionForResourceLastMatch(segs) ==
    IF ProviderMatches(segs) = {} THEN DefaultApiVersion
    ELSE LET i == CHOOSE k \in ProviderMatches(segs) :
                      \A j \in ProviderMatches(segs) : k >= j
             hits == { e \in apiVersions :
                         e[1] = segs[i + 1] /\ e[2] = segs[i + 2] }
         IN  IF hits = {} THEN DefaultApiVersion
             ELSE (CHOOSE e \in hits : TRUE)[3]

getApiVersionForResource(segs) ==
    IF ProviderMatches(segs) = {} THEN DefaultApiVersion
    ELSE LET i == CHOOSE k \in ProviderMatches(segs) :
                      \A j \in ProviderMatches(segs) : k <= j
             hits == { e \in apiVersions :
                         e[1] = segs[i + 1] /\ e[2] = segs[i + 2] }
         IN  IF hits = {} THEN DefaultApiVersion
             ELSE (CHOOSE e \in hits : TRUE)[3]

\* `fallbackApiVersions`
fallbackApiVersions(primaryApiVersion) ==
    <<primaryApiVersion, "2021-04-01", "2020-06-01", "2019-10-01">>

\* [...new Set(list)]: each value once, at the place of its first occurrence
RECURSIVE SetOrder(_, _)
SetOrder(list, seen) ==
    IF list = <<>> THEN seen
    ELSE IF \E i \in 1..Len(seen) : seen[i] = Head(list)
         THEN SetOrder(Tail(list), seen)
         ELSE SetOrder(Tail(list), Append(seen, Head(list)))

\* a candidate list that keeps the duplicates
UniqueApiVersionsKeepAll(segs) ==
    fallbackApiVersions(getApiVersionForResource(segs))

UniqueApiVersions(segs) ==
    SetOrder(fallbackApiVersions(getApiVersionForResource(segs)), <<>>)

\* error messages; `includes` is tabulated by the markers each one contains
MsgNoProvider ==
    "No registered resource provider found for location and API version"
MsgApiVersion == "The API version is invalid for this resource type"
MsgNotSupported == "The requested operation is not supported"
MsgLowerCase == "The api-version is invalid"
MsgBadRequest == "Bad request"
MsgAxios == "Request failed with status code"
MsgNetwork == "Network Error"
MsgUnexpected == "Unexpected response status"
MsgUnknown == "Unknown error"

Includes(msg, marker) ==
    CASE msg = MsgNoProvider ->
           marker \in {"No registered resource provider found", "API version"}
      [] msg = MsgApiVersion -> marker = "API version"
      [] msg = MsgNotSupported -> marker = "not supported"
      [] OTHER -> FALSE

\* `a || b` on strings
Or(a, b) == IF Truthy(a) THEN a ELSE b

\* what a DELETE request can end in: a 2xx response (axios resolves), a
\* response with another status and an optional error.message in its body
\* (axios rejects), or no response at all (axios rejects, status 0)
DeleteOutcomes ==
    [resolved : {TRUE}, hasResponse : {TRUE}, status : {200, 201, 202, 204},
     dataMessage : {Undefined}, message : {Undefined}]
    \cup
    [resolved : {FALSE}, hasResponse : {TRUE},
     status : {400, 403, 404, 409, 500},
     dataMessage : {Undefined, "", MsgNoProvider, MsgApiVersion,
                    MsgNotSupported, MsgLowerCase, MsgBadRequest},
     message : {MsgAxios}]
    \cup
    [resolved : {FALSE}, hasResponse : {FALSE}, status : {0},
     dataMessage : {Undefined}, message : {MsgNetwork}]

\* a check that takes every 2xx status for a success
IsSuccessStatusAny2xx(status) == status >= 200 /\ status < 300

\* a check that leaves out 202 Accepted
IsSuccessStatusNoAccepted(status) == status = 200 \/ status = 204

\* `response.status === 200 || response.status === 202 || response.status === 204`
IsSuccessStatus(status) == status = 200 \/ status = 202 \/ status = 204

\* the error the catch block receives: the axios rejection, or the Error the
\* try block throws for a 2xx status that is none of the three
CaughtError(outcome) ==
    IF outcome.resolved
      THEN [hasResponse |-> FALSE, status |-> 0, dataMessage |-> Undefined,
            message |-> MsgUnexpected]
      ELSE [hasResponse |-> outcome.hasResponse, status |-> outcome.status,
            dataMessage |-> outcome.dataMessage, message |-> outcome.message]

\* a retry test that looks at the status class only
IsApiVersionIssueAny4xx(error) ==
    error.hasResponse /\ error.status >= 400 /\ error.status < 500

\* a retry test that does not read the message
IsApiVersionIssueAny400(error) ==
    error.hasResponse /\ error.status = 400

\* lines 226-233: a 400 whose message carries one of the three markers
IsApiVersionIssue(error) ==
    /\ error.hasResponse
    /\ error.status = 400
    /\ LET errorMessage == Or(error.dataMessage, error.message)
       IN  \/ Includes(errorMessage, "No registered resource provider found")
           \/ Includes(errorMessage, "API version")
           \/ Includes(errorMessage, "not supported")

\* a classification with the 404 and 409 texts exchanged
ClassifyErrorSwapped(error) ==
    IF error.hasResponse /\ error.status = 403
      THEN [kind |-> "Permission denied", message |-> ""]
    ELSE IF error.hasResponse /\ error.status = 404
      THEN [kind |-> "Resource is locked", message |-> ""]
    ELSE IF error.hasResponse /\ error.status = 409
      THEN [kind |-> "Resource not found", message |-> ""]
    ELSE IF error.hasResponse /\ error.status = 400
      THEN [kind |-> "API version issue",
            message |-> Or(error.dataMessage, error.message)]
    ELSE [kind |-> "Failed to delete resource",
          message |-> Or(error.dataMessage, Or(error.message, MsgUnknown))]

\* lines 245-257: the Error raised for `lastError`
ClassifyError(error) ==
    IF error.hasResponse /\ error.status = 403
      THEN [kind |-> "Permission denied", message |-> ""]
    ELSE IF error.hasResponse /\ error.status = 409
      THEN [kind |-> "Resource is locked", message |-> ""]
    ELSE IF error.hasResponse /\ error.status = 404
      THEN [kind |-> "Resource not found", message |-> ""]
    ELSE IF error.hasResponse /\ error.status = 400
      THEN [kind |-> "API version issue",
            message |-> Or(error.dataMessage, error.message)]
    ELSE [kind |-> "Failed to delete resource",
          message |-> Or(error.dataMessage, Or(error.message, MsgUnknown))]

\* the version of the coming loop turn
CurrentApiVersion == uniqueApiVersions[Len(attempts) + 1]

\* a turn whose response is 200, 202 or 204: `return`
DeleteSucceeds(outcome) ==
    /\ dpc = "loop"
    /\ outcome.resolved /\ IsSuccessStatus(outcome.status)
    /\ attempts' = Append(attempts,
                          [apiVersion |-> CurrentApiVersion, outcome |-> outcome])
    /\ dpc' = "returned"
    /\ UNCHANGED <<resourceId, uniqueApiVersions, lastError, thrown,
                   fvars, qvars, xvars>>

\* a turn that fails as an API-version problem with a candidate left: `continue`
DeleteTriesNext(outcome) ==
    /\ dpc = "loop"
    /\ ~(outcome.resolved /\ IsSuccessStatus(outcome.status))
    /\ IsApiVersionIssue(CaughtError(outcome))
    /\ Len(attempts) + 1 < Len(uniqueApiVersions)
    /\ attempts' = Append(attempts,
                          [apiVersion |-> CurrentApiVersion, outcome |-> outcome])
    /\ lastError' = <<CaughtError(outcome)>>
    /\ UNCHANGED <<resourceId, uniqueApiVersions, dpc, thrown,
                   fvars, qvars, xvars>>

\* a turn that ends the loop without a success: `break`, or `continue` on the
\* last candidate; the classified Error for `lastError` is thrown
DeleteFails(outcome) ==
    /\ dpc = "loop"
    /\ ~(outcome.resolved /\ IsSuccessStatus(outcome.status))
    /\ \/ ~IsApiVersionIssue(CaughtError(outcome))
       \/ Len(attempts) + 1 = Len(uniqueApiVersions)
    /\ attempts' = Append(attempts,
                          [apiVersion |-> CurrentApiVersion, outcome |-> outcome])
    /\ lastError' = <<CaughtError(outcome)>>
    /\ dpc' = "threw"
    /\ thrown' = <<ClassifyError(lastError'[1])>>
    /\ UNCHANGED <<resourceId, uniqueApiVersions, fvars, qvars, xvars>>

\* the resource ids deleteResource is called with
Rg == <<"subscriptions", "s1", "resourceGroups", "rg1">>
DeleteResourceIds ==
    { Rg \o <<"providers", "Microsoft.Sql", "servers", "db1">>,
      Rg \o <<"providers", "Microsoft.Storage", "storageAccounts", "st1">>,
      Rg \o <<"providers", "Microsoft.Resources", "deployments", "d1">>,
      Rg \o <<"providers", "Microsoft.Foo", "bars", "b1">>,
      Rg \o <<"providers", "Microsoft.Compute", "virtualMachines", "vm1",
              "providers", "Microsoft.Insights", "components", "c1">>,
      Rg \o <<"providers", "Microsoft.Sql">>,
      Rg }

\* no fetch is modelled beside the deletion
FetchIdle ==
    /\ url = ""
    /\ next = ""
    /\ items = <<>>
    /\ requests = <<>>
    /\ responses = <<>>
    /\ fpc = "idle"
    /\ fresult = <<>>
    /\ ferror = <<>>

\* the state when the loop is entered (lines 172-187)
DeleteInit ==
    /\ FetchIdle
    /\ QueryIdle
    /\ XIdle
    /\ resourceId \in DeleteResourceIds
    /\ uniqueApiVersions = UniqueApiVersions(resourceId)
    /\ attempts = <<>>
    /\ lastError = <<>>
    /\ dpc = "loop"
    /\ thrown = <<>>

DeleteNext ==
    \/ \E outcome \in DeleteOutcomes : DeleteSucceeds(outcome)
    \/ \E outcome \in DeleteOutcomes : DeleteTriesNext(outcome)
    \/ \E outcome \in DeleteOutcomes : DeleteFails(outcome)

SpecDelete == DeleteInit /\ [][DeleteNext]_vars

----------------------------------------------------------------------------
(* deleteResource: the claims *)

\* the versions of the DELETE requests issued so far, in order
AttemptedVersions == [i \in 1..Len(attempts) |-> attempts[i].apiVersion]

\* primary, 2021-04-01, 2020-06-01, 2019-10-01, a generic default left out
\* when the primary is that version already
CandidateOrder(primary) ==
    <<primary>>
    \o (IF primary = "2021-04-01" THEN <<>> ELSE <<"2021-04-01">>)
    \o (IF primary = "2020-06-01" THEN <<>> ELSE <<"2020-06-01">>)
    \o (IF primary = "2019-10-01" THEN <<>> ELSE <<"2019-10-01">>)

\* the message the server's rejection shows: the body's, else the client's
ShownMessage(outcome) ==
    IF outcome.dataMessage \notin {Undefined, ""} THEN outcome.dataMessage
    ELSE outcome.message

\* a 400 whose message indicates an API-version problem
VersionRejection(outcome) ==
    /\ ~outcome.resolved
    /\ outcome.hasResponse
    /\ outcome.status = 400
    /\ ShownMessage(outcome) \in {MsgNoProvider, MsgApiVersion, MsgNotSupported}

\* a response with one of the three success statuses
SuccessResponse(outcome) ==
    outcome.resolved /\ outcome.status \in {200, 202, 204}

\* C5: the DELETE requests go to the primary version, then 2021-04-01,
\* 2020-06-01 and 2019-10-01 in that order with duplicates skipped: no version
\* twice, at most 4 requests and at most 3 when the primary is 2021-04-01; a
\* request follows another only after a 400 that indicates an API-version
\* problem, and none follows a success.
C5_DeleteVersionOrder ==
    LET primary == getApiVersionForResource(resourceId)
        order == CandidateOrder(primary)
    IN  /\ Len(attempts) <= Len(order)
        /\ \A i \in 1..Len(attempts) : attempts[i].apiVersion = order[i]
        /\ \A i, j \in 1..Len(attempts) :
              i # j => attempts[i].apiVersion # attempts[j].apiVersion
        /\ Len(attempts) <= 4
        /\ primary = "2021-04-01" => Len(attempts) <= 3
        /\ \A i \in 1..(Len(attempts) - 1) :
              VersionRejection(attempts[i].outcome)
        /\ \A i \in 1..Len(attempts) :
              SuccessResponse(attempts[i].outcome) => i = Len(attempts)
        /\ dpc = "loop" => Len(attempts) < Len(order)

\* a deletion that succeeds on the fourth and last candidate
C5_Witness ==
    /\ dpc = "returned"
    /\ AttemptedVersions =
         <<"2021-11-01", "2021-04-01", "2020-06-01", "2019-10-01">>

\* C6: a 409 on the first attempt ends the deletion after that one request
\* with the 'Resource is locked' error.
C6_ConflictOnFirstAttempt ==
    (Len(attempts) >= 1 /\ ~attempts[1].outcome.resolved
       /\ attempts[1].outcome.status = 409)
    => /\ Len(attempts) = 1
       /\ dpc = "threw"
       /\ thrown = <<[kind |-> "Resource is locked", message |-> ""]>>

\* a 409 on the first of four candidates
C6_Witness ==
    /\ Len(attempts) = 1
    /\ attempts[1].outcome.status = 409
    /\ Len(uniqueApiVersions) = 4
    /\ dpc = "threw"

\* C7: a failed attempt that is no API-version rejection is the last attempt,
\* at whatever position: the deletion has raised and no request was issued for
\* a remaining candidate.
C7_OtherFailureEndsLoop ==
    \A i \in 1..Len(attempts) :
        (~attempts[i].outcome.resolved /\ ~VersionRejection(attempts[i].outcome))
        => (i = Len(attempts) /\ dpc = "threw")

\* a 400 without a version marker on the second of four candidates
C7_Witness ==
    /\ Len(attempts) = 2
    /\ Len(uniqueApiVersions) = 4
    /\ attempts[2].outcome.status = 400
    /\ attempts[2].outcome.dataMessage = MsgBadRequest
    /\ dpc = "threw"

\* the kind of error the last failure asks for
KindFor(outcome) ==
    IF outcome.resolved \/ ~outcome.hasResponse
      THEN "Failed to delete resource"
    ELSE IF outcome.status = 403 THEN "Permission denied"
    ELSE IF outcome.status = 409 THEN "Resource is locked"
    ELSE IF outcome.status = 404 THEN "Resource not found"
    ELSE IF outcome.status = 400 THEN "API version issue"
    ELSE "Failed to delete resource"

\* the message under the last failure
UnderlyingMessage(outcome) ==
    IF outcome.resolved THEN MsgUnexpected ELSE ShownMessage(outcome)

\* C8: the error a failed deletion raises is decided by the last failure
\* alone: 403 permission denied, 409 locked, 404 not found, 400 version
\* incompatible, anything else the generic error with the last underlying
\* message; one error of the five kinds is raised.
C8_ErrorFromLastFailure ==
    /\ dpc = "threw" =>
         /\ Len(thrown) = 1
         /\ Len(attempts) >= 1
         /\ LET last == attempts[Len(attempts)].outcome
            IN  /\ thrown[1].kind = KindFor(last)
                /\ thrown[1].kind = "Failed to delete resource"
                     => thrown[1].message = UnderlyingMessage(last)
    /\ dpc # "threw" => thrown = <<>>

\* a 403 after two version rejections is reported as permission denied
C8_Witness ==
    /\ dpc = "threw"
    /\ Len(attempts) = 3
    /\ attempts[3].outcome.status = 403
    /\ thrown[1].kind = "Permission denied"

\* C9: the version-incompatible error is raised only when every candidate
\* version was attempted and each attempt was rejected as an API-version
\* problem.
C9_VersionErrorOnlyAfterAllCandidates ==
    (dpc = "threw" /\ thrown[1].kind = "API version issue")
    => /\ Len(attempts) = Len(uniqueApiVersions)
       /\ \A i \in 1..Len(attempts) : VersionRejection(attempts[i].outcome)

\* C10: the deletion completes without raising exactly when some attempt was
\* answered 200, 202 or 204, and that attempt is the last request.
C10_SuccessIffSuccessStatus ==
    /\ (dpc = "returned") <=>
         (\E i \in 1..Len(attempts) : SuccessResponse(attempts[i].outcome))
    /\ \A i \in 1..Len(attempts) :
          SuccessResponse(attempts[i].outcome) => i = Len(attempts)
    /\ dpc = "returned" => thrown = <<>>

\* a 202 on the second of four candidates
C10_Witness ==
    /\ dpc = "returned"
    /\ Len(attempts) = 2
    /\ Len(uniqueApiVersions) = 4
    /\ attempts[2].outcome.status = 202

----------------------------------------------------------------------------
\* the provider and the type of the leftmost '/providers/{provider}/{type}'
\* of an id, <<>> when the id has none
RECURSIVE FirstProviderPair(_)
FirstProviderPair(segs) ==
    IF Len(segs) < 3 THEN <<>>
    ELSE IF Head(segs) = "providers" /\ segs[2] # "" /\ segs[3] # ""
         THEN <<segs[2], segs[3]>>
         ELSE FirstProviderPair(Tail(segs))

\* the versions the static table lists for a provider/type pair
TableVersions(pair) ==
    { e[3] : e \in { t \in apiVersions : <<t[1], t[2]>> = pair } }

\* C11: the first DELETE request carries the static table's version for the
\* provider/type of the id's first '/providers/{provider}/{type}' segment,
\* and 2021-04-01 when the id has no such segment or the table has no entry
\* for the pair.
C11_PrimaryApiVersion ==
    Len(attempts) >= 1 =>
        LET pair == FirstProviderPair(resourceId)
        IN  IF pair = <<>> \/ TableVersions(pair) = {}
            THEN attempts[1].apiVersion = "2021-04-01"
            ELSE TableVersions(pair) = {attempts[1].apiVersion}

\* the id of a nested resource, whose first provider segment (a virtual
\* machine, 2021-11-01) and not its last (2020-02-02) gives the version
C11_Witness ==
    /\ Len(attempts) >= 1
    /\ Cardinality(ProviderMatches(resourceId)) = 2
    /\ attempts[1].apiVersion = "2021-11-01"

\* C26: a DELETE response with a success status other than 200, 202 and 204
\* (201) counts as a failure: no further version is tried and the generic
\* 'Failed to delete resource' error is raised, none of the four classified
\* ones.
C26_OtherSuccessStatusFails ==
    \A i \in 1..Len(attempts) :
       (attempts[i].outcome.resolved
        /\ attempts[i].outcome.status \notin {200, 202, 204}) =>
           /\ i = Len(attempts)
           /\ dpc = "threw"
           /\ thrown # <<>>
           /\ thrown[1].kind = "Failed to delete resource"
           /\ thrown[1].kind \notin {"Permission denied", "Resource is locked",
                                     "Resource not found", "API version issue"}
           /\ thrown[1].message = "Unexpected response status"

\* a 201 on the second candidate, with two candidates left untried
C26_Witness ==
    /\ Len(uniqueApiVersions) = 4
    /\ Len(attempts) = 2
    /\ attempts[2].outcome.resolved
    /\ attempts[2].outcome.status = 201
    /\ dpc = "threw"

(* onQuery, owner aggregation: src/src/components/Dashboard.tsx 270-317 *)

\* the most owner role assignments the fetches of one query return together
MaxAssignments == 2

\* `/subscriptions/${subscription.id}`
SubRoot(subscriptionId) == <<"subscriptions", subscriptionId>>

\* the ids of the resources the fetches return (the code never asks which
\* subscription an id names, so every fetch may return either)
ResX == Rg \o <<"providers", "Microsoft.Sql", "servers", "db1">>
ResY == <<"subscriptions", "s1", "resourceGroups", "rg2",
          "providers", "Microsoft.Storage", "storageAccounts", "st1">>

\* what fetchAllResources returns for one subscription
ResourceLists ==
    { <<>>, <<[id |-> ResX]>>, <<[id |-> ResY], [id |-> ResX]>> }

\* the owner role assignments fetchAllOwnerRoleAssignments returns: a
\* principal id (possibly empty) and the scope of the grant
OwnerAssignments ==
    [principalId : {"", "p1", "p2"},
     scope : {SubRoot("s1"), SubRoot("s2"), Rg, ResX}]

AssignmentLists(n) == UNION { [1..k -> OwnerAssignments] : k \in 0..n }

\* the selections a query runs over
SelectedChoices == { <<"s1">>, <<"s2">>, <<"s1", "s2">>, <<"s2", "s1">> }

\* what the Graph step can leave in principalIdToName: nothing (no token, a
\* rejected request, an empty answer), or directory objects by id, with or
\* without a displayName
PrincipalMaps ==
    { {},
      {[id |-> "p1", displayName |-> "Alice"]},
      {[id |-> "p1", displayName |-> "Alice"],
       [id |-> "p2", displayName |-> Undefined]},
      {[id |-> "p1", displayName |-> ""],
       [id |-> "p2", displayName |-> "Bob"]} }

\* `principalIdToName[id]?.displayName`
DisplayNameOf(map, id) ==
    IF \E o \in map : o.id = id
      THEN (CHOOSE o \in map : o.id = id).displayName
      ELSE Undefined

\* `principalIdToName[id]?.displayName || id`
OwnerName(map, id) == Or(DisplayNameOf(map, id), id)

\* a Map<string, string[]> as its entries in insertion order
MapHas(map, key) == \E i \in 1..Len(map) : map[i].key = key
MapGet(map, key) == map[CHOOSE i \in 1..Len(map) : map[i].key = key].value
MapSet(map, key, value) ==
    IF MapHas(map, key)
      THEN [i \in 1..Len(map) |->
              IF map[i].key = key THEN [key |-> key, value |-> value]
              ELSE map[i]]
      ELSE Append(map, [key |-> key, value |-> value])

\* lines 290-298: scopeToOwners after the loop over ownerAssignments
RECURSIVE ScopeToOwners(_, _, _)
ScopeToOwners(ownerAssignments, names, map) ==
    IF ownerAssignments = <<>> THEN map
    ELSE LET ra == Head(ownerAssignments)
             id == ra.principalId
         IN  IF ~Truthy(id)
               THEN ScopeToOwners(Tail(ownerAssignments), names, map)
               ELSE LET name == OwnerName(names, id)
                        list == IF MapHas(map, ra.scope)
                                  THEN MapGet(map, ra.scope) ELSE <<>>
                    IN  ScopeToOwners(Tail(ownerAssignments), names,
                                      MapSet(map, ra.scope, Append(list, name)))

\* a lookup that adds the subscription's owners to the resource's own
OwnersOfMerged(map, id, subscriptionId) ==
    (IF MapHas(map, id) THEN MapGet(map, id) ELSE <<>>)
    \o (IF MapHas(map, SubRoot(subscriptionId))
          THEN MapGet(map, SubRoot(subscriptionId)) ELSE <<>>)

\* a lookup that asks for the subscription's owners first
OwnersOfRootFirst(map, id, subscriptionId) ==
    IF MapHas(map, SubRoot(subscriptionId))
      THEN MapGet(map, SubRoot(subscriptionId))
    ELSE IF MapHas(map, id) THEN MapGet(map, id)
    ELSE <<>>

\* line 302: scopeToOwners.get(r.id) || scopeToOwners.get(`/subscriptions/${subscription.id}`) || []
OwnersOf(map, id, subscriptionId) ==
    IF MapHas(map, id) THEN MapGet(map, id)
    ELSE IF MapHas(map, SubRoot(subscriptionId))
      THEN MapGet(map, SubRoot(subscriptionId))
    ELSE <<>>

\* lines 300-312: `withOwners` of one subscription's result
WithOwners(result, names) ==
    LET scopeToOwners == ScopeToOwners(result.ownerAssignments, names, <<>>)
    IN  [j \in 1..Len(result.resources) |->
           [id |-> result.resources[j].id,
            owners |-> OwnersOf(scopeToOwners, result.resources[j].id,
                                result.subscription)]]

\* the owner assignments of every subscription in one list
RECURSIVE AllAssignments(_)
AllAssignments(results) ==
    IF results = <<>> THEN <<>>
    ELSE Head(results).ownerAssignments \o AllAssignments(Tail(results))

\* an aggregation whose scopeToOwners is built once, from the assignments of
\* all the subscriptions
RECURSIVE AllWithOwnersFrom(_, _, _)
AllWithOwnersFrom(results, ras, names) ==
    IF results = <<>> THEN <<>>
    ELSE WithOwners([Head(results) EXCEPT !.ownerAssignments = ras], names)
         \o AllWithOwnersFrom(Tail(results), ras, names)

AllWithOwnersShared(results, names) ==
    AllWithOwnersFrom(results, AllAssignments(results), names)

\* lines 286-315: `allResources` after the loop over subscriptionResults
RECURSIVE AllWithOwners(_, _)
AllWithOwners(results, names) ==
    IF results = <<>> THEN <<>>
    ELSE WithOwners(Head(results), names) \o AllWithOwners(Tail(results), names)

\* lines 277-284: the Graph step leaves a mapping, empty when it failed
ResolvePrincipals(map) ==
    /\ qpc = "fetched"
    /\ principalIdToName' = map
    /\ qpc' = "resolved"
    /\ UNCHANGED <<selectedSubscriptions, subscriptionResults, allResources,
                   fvars, dvars, xvars>>

\* lines 286-317: the owners are joined to the resources
Aggregate ==
    /\ qpc = "resolved"
    /\ allResources' = AllWithOwners(subscriptionResults, principalIdToName)
    /\ qpc' = "done"
    /\ UNCHANGED <<selectedSubscriptions, subscriptionResults,
                   principalIdToName, fvars, dvars, xvars>>

\* the state after line 270: every subscription's fetches have returned
QueryInit ==
    /\ FetchIdle
    /\ DeleteIdle
    /\ XIdle
    /\ selectedSubscriptions \in SelectedChoices
    /\ \E a1 \in AssignmentLists(MaxAssignments), r1 \in ResourceLists :
         IF Len(selectedSubscriptions) = 1
           THEN subscriptionResults =
                  <<[subscription |-> selectedSubscriptions[1],
                     resources |-> r1, ownerAssignments |-> a1]>>
           ELSE \E a2 \in AssignmentLists(MaxAssignments - Len(a1)),
                   r2 \in ResourceLists :
                  subscriptionResults =
                    <<[subscription |-> selectedSubscriptions[1],
                       resources |-> r1, ownerAssignments |-> a1],
                      [subscription |-> selectedSubscriptions[2],
                       resources |-> r2, ownerAssignments |-> a2]>>
    /\ principalIdToName = {}
    /\ allResources = <<>>
    /\ qpc = "fetched"

QueryNext ==
    \/ \E map \in PrincipalMaps : ResolvePrincipals(map)
    \/ Aggregate

SpecQuery == QueryInit /\ [][QueryNext]_vars

----------------------------------------------------------------------------
(* owner aggregation: the claims *)

\* the number of result items that stem from the subscriptions before the k-th
RECURSIVE ItemsBefore(_)
ItemsBefore(k) ==
    IF k <= 1 THEN 0
    ELSE ItemsBefore(k - 1) + Len(subscriptionResults[k - 1].resources)

\* the result item of the j-th resource of the k-th subscription
ItemOf(k, j) == allResources[ItemsBefore(k) + j]

\* the name an assignment is shown by: the display name when the directory
\* resolved one, else the raw principal id
ShownName(ra) ==
    LET hits == { o \in principalIdToName :
                    o.id = ra.principalId
                    /\ o.displayName \notin {Undefined, ""} }
    IN  IF hits = {} THEN ra.principalId
        ELSE (CHOOSE o \in hits : TRUE).displayName

\* the non-empty names of the assignments of `ras` at `scope`, in order
NamesAt(ras, scope) ==
    LET at == SelectSeq(ras, LAMBDA ra : ra.scope = scope /\ ShownName(ra) # "")
    IN  [i \in 1..Len(at) |-> ShownName(at[i])]

\* the assignments of `ras` at `scope`, with or without a principal id
AssignedAt(ras, scope) == SelectSeq(ras, LAMBDA ra : ra.scope = scope)

\* the assignments of `ras` at `scope` that carry a principal id
PrincipalsAt(ras, scope) ==
    SelectSeq(ras, LAMBDA ra : ra.scope = scope /\ ra.principalId # "")

\* every resource of every subscription has its item, in order, and `Owners`
\* (of the subscription's assignments, the resource id and the subscription
\* id) gives the item's owner list
ResultHasOwners(Owners(_, _, _)) ==
    /\ Len(allResources) = ItemsBefore(Len(subscriptionResults) + 1)
    /\ \A k \in 1..Len(subscriptionResults) :
         \A j \in 1..Len(subscriptionResults[k].resources) :
            LET result == subscriptionResults[k]
                id == result.resources[j].id
            IN  /\ ItemOf(k, j).id = id
                /\ ItemOf(k, j).owners =
                     Owners(result.ownerAssignments, id, result.subscription)

\* C3 as claimed: the owners of a resource are the names of the owner
\* assignments scoped to the resource's id, or, when no assignment has that
\* scope, of those scoped to the subscription root; no other scope contributes.
C3_OwnersByAnyAssignmentAtScope ==
    qpc = "done" =>
      ResultHasOwners(LAMBDA ras, id, sub :
         IF AssignedAt(ras, id) # <<>> THEN NamesAt(ras, id)
         ELSE NamesAt(ras, SubRoot(sub)))

\* C3, amended: the owners of a resource are the names of the owner
\* assignments with a non-empty principal id scoped to the resource's id, or,
\* when no assignment with a non-empty principal id has that scope, of those
\* scoped to the subscription root; assignments without a principal id or at
\* any other scope contribute nothing.
C3_OwnersByScope ==
    qpc = "done" =>
      ResultHasOwners(LAMBDA ras, id, sub :
         IF PrincipalsAt(ras, id) # <<>> THEN NamesAt(ras, id)
         ELSE NamesAt(ras, SubRoot(sub)))

\* a resource with one owner of its own, resolved to a display name, beside a
\* resource-group owner that contributes nothing, and a resource without owners
C3_Witness ==
    /\ qpc = "done"
    /\ selectedSubscriptions = <<"s1">>
    /\ subscriptionResults[1].ownerAssignments =
         <<[principalId |-> "p2", scope |-> Rg],
           [principalId |-> "p1", scope |-> ResX]>>
    /\ subscriptionResults[1].resources = <<[id |-> ResY], [id |-> ResX]>>
    /\ allResources = <<[id |-> ResY, owners |-> <<>>],
                        [id |-> ResX, owners |-> <<"Alice">>]>>

\* C4 as claimed: a resource with one owner assignment scoped to its id has
\* that assignment's name as its only owner, whatever is scoped to the
\* subscription root; a resource with no assignment scoped to its id has the
\* subscription-root owners.
C4_AnyResourceLevelAssignmentWins ==
    qpc = "done" =>
      \A k \in 1..Len(subscriptionResults) :
        \A j \in 1..Len(subscriptionResults[k].resources) :
          LET result == subscriptionResults[k]
              ras == result.ownerAssignments
              id == result.resources[j].id
          IN  /\ Len(AssignedAt(ras, id)) = 1
                   => ItemOf(k, j).owners = NamesAt(ras, id)
              /\ Len(AssignedAt(ras, id)) = 0
                   => ItemOf(k, j).owners = NamesAt(ras, SubRoot(result.subscription))

\* C4, amended: a resource with one owner assignment with a non-empty
\* principal id scoped to its id has that assignment's name as its only owner,
\* whatever is scoped to the subscription root; a resource with no such
\* assignment scoped to its id has the subscription-root owners.
C4_ResourceLevelAssignmentWins ==
    qpc = "done" =>
      \A k \in 1..Len(subscriptionResults) :
        \A j \in 1..Len(subscriptionResults[k].resources) :
          LET result == subscriptionResults[k]
              ras == result.ownerAssignments
              id == result.resources[j].id
          IN  /\ Len(PrincipalsAt(ras, id)) = 1
                   => ItemOf(k, j).owners = <<ShownName(PrincipalsAt(ras, id)[1])>>
              /\ Len(PrincipalsAt(ras, id)) = 0
                   => ItemOf(k, j).owners = NamesAt(ras, SubRoot(result.subscription))

\* one resource with an owner of its own beside a subscription owner, and one
\* resource of the same subscription that falls back to the subscription owner
C4_Witness ==
    /\ qpc = "done"
    /\ selectedSubscriptions = <<"s1">>
    /\ subscriptionResults[1].ownerAssignments =
         <<[principalId |-> "p2", scope |-> SubRoot("s1")],
           [principalId |-> "p1", scope |-> ResX]>>
    /\ allResources = <<[id |-> ResY, owners |-> <<"Bob">>],
                        [id |-> ResX, owners |-> <<"p1">>]>>

\* C25: in a query over several subscriptions the owners of a resource come
\* from the owner assignments fetched for the resource's own subscription
\* only: they are the names of that subscription's assignments at the
\* resource's id or at the subscription's root, whatever the assignments of
\* the other subscriptions, the same scope string included.
C25_OwnersFromOwnSubscription ==
    qpc = "done" =>
        \A k \in 1..Len(subscriptionResults) :
           LET result == subscriptionResults[k]
           IN  \A j \in 1..Len(result.resources) :
                  \E scope \in {result.resources[j].id,
                                <<"subscriptions", result.subscription>>} :
                     ItemOf(k, j).owners
                       = NamesAt(result.ownerAssignments, scope)

\* both subscriptions return the same resource id; the first has an owner
\* assigned at that scope, the second has no assignment, and only the first
\* one's resource shows the owner
C25_Witness ==
    /\ qpc = "done"
    /\ Len(subscriptionResults) = 2
    /\ subscriptionResults[1].resources = <<[id |-> ResX]>>
    /\ subscriptionResults[2].resources = <<[id |-> ResX]>>
    /\ subscriptionResults[1].ownerAssignments =
         <<[principalId |-> "p1", scope |-> ResX]>>
    /\ subscriptionResults[2].ownerAssignments = <<>>
    /\ allResources = <<[id |-> ResX, owners |-> <<"p1">>],
                        [id |-> ResX, owners |-> <<>>]>>

(* getPrincipalsByIds: src/AUTHENTICATION-SETUP.md 161-191 *)

MaxIds == 3
MaxObjects == 2

PrincipalIds == {"p1", "p2"}

\* the lists of principal ids the function is called with
IdLists == UNION { [1..n -> PrincipalIds] : n \in 0..MaxIds }

\* DirectoryObjectMinimal: the objects a response may hold, two of them with
\* the same id
DirectoryObjects ==
    { [id |-> "p1", displayName |-> "Alice"],
      [id |-> "p1", displayName |-> Undefined],
      [id |-> "p2", displayName |-> "Bob"] }

\* the outcomes of the POST: a 2xx response whose body has a `value` array
\* or none, a response with another status, no response (status 0)
GraphResponses ==
    [ok : {TRUE}, status : {200}, hasValue : {TRUE},
     value : UNION { [1..n -> DirectoryObjects] : n \in 0..MaxObjects }]
    \cup [ok : {TRUE}, status : {200}, hasValue : {FALSE}, value : {<<>>}]
    \cup [ok : {FALSE}, status : {0, 400, 401, 403, 500}, hasValue : {FALSE},
          value : {<<>>}]

\* a request body that carries the ids as they came
UniqueIdsKeepAll(list) == list

\* `Array.from(new Set(ids))`
UniqueIds(list) == SetOrder(list, <<>>)

\* `for (const obj of data.value || []) { map[obj.id] = obj }`
RECURSIVE MapOfObjects(_, _)
MapOfObjects(map, value) ==
    IF value = <<>> THEN map
    ELSE MapOfObjects({ o \in map : o.id # Head(value).id } \cup {Head(value)},
                      Tail(value))

\* a call that posts the request whatever the list
GraphCallAlwaysPosts ==
    /\ gpc = "called"
    /\ grequests' = Append(grequests, [ids |-> UniqueIds(ids)])
    /\ gpc' = "awaiting"
    /\ UNCHANGED <<ids, gresponse, gresult,
                   fvars, dvars, qvars, ovars, hvars, yvars>>

\* the call up to its await: the empty list returns {} at once, any other
\* list is posted without its duplicates
GraphCall ==
    /\ gpc = "called"
    /\ IF Len(ids) = 0
         THEN /\ gpc' = "returned"
              /\ gresult' = <<{}>>
              /\ grequests' = grequests
         ELSE /\ gpc' = "awaiting"
              /\ gresult' = gresult
              /\ grequests' = Append(grequests, [ids |-> UniqueIds(ids)])
    /\ UNCHANGED <<ids, gresponse, fvars, dvars, qvars, ovars, hvars, yvars>>

\* the request is answered: the objects are keyed by their id
GraphAnswers(resp) ==
    /\ gpc = "awaiting"
    /\ resp.ok
    /\ gresponse' = <<resp>>
    /\ gresult' = <<MapOfObjects({}, IF resp.hasValue THEN resp.value
                                     ELSE <<>>)>>
    /\ gpc' = "returned"
    /\ UNCHANGED <<ids, grequests, fvars, dvars, qvars, ovars, hvars, yvars>>

\* a failed request whose error leaves the function
GraphFailsRethrows(resp) ==
    /\ gpc = "awaiting"
    /\ ~resp.ok
    /\ gresponse' = <<resp>>
    /\ gpc' = "threw"
    /\ UNCHANGED <<ids, grequests, gresult,
                   fvars, dvars, qvars, ovars, hvars, yvars>>

\* the request fails: the catch block logs and returns {}
GraphFails(resp) ==
    /\ gpc = "awaiting"
    /\ ~resp.ok
    /\ gresponse' = <<resp>>
    /\ gresult' = <<{}>>
    /\ gpc' = "returned"
    /\ UNCHANGED <<ids, grequests, fvars, dvars, qvars, ovars, hvars, yvars>>

GraphInit ==
    /\ YIdle
    /\ FetchIdle
    /\ DeleteIdle
    /\ QueryIdle
    /\ OwnerIdle
    /\ HandlerIdle
    /\ ids \in IdLists
    /\ grequests = <<>>
    /\ gresponse = <<>>
    /\ gpc = "called"
    /\ gresult = <<>>

GraphNext ==
    \/ GraphCall
    \/ \E resp \in GraphResponses : GraphAnswers(resp)
    \/ \E resp \in GraphResponses : GraphFails(resp)

SpecGraph == GraphInit /\ [][GraphNext]_vars

(* getPrincipalsByIds: the claims *)

\* C13: called with an empty list of ids, getPrincipalsByIds returns the
\* empty mapping and issues no network request.
C13_EmptyListNoRequest ==
    Len(ids) = 0 =>
        /\ grequests = <<>>
        /\ gresponse = <<>>
        /\ gpc \in {"called", "returned"}
        /\ gpc = "returned" => gresult = <<{}>>

\* the call with the empty list has returned
C13_Witness ==
    /\ ids = <<>>
    /\ gpc = "returned"
    /\ gresult = <<{}>>

\* C14: getPrincipalsByIds never raises; when the directory request fails
\* (403, another status, or no response at all) it returns the empty mapping.
C14_NeverRaises ==
    /\ gpc # "threw"
    /\ (gresponse # <<>> /\ ~gresponse[1].ok) =>
          gpc = "returned" /\ gresult = <<{}>>

\* a request refused with 403, answered by the empty mapping
C14_Witness ==
    /\ gresponse # <<>>
    /\ gresponse[1].status = 403
    /\ gpc = "returned"
    /\ gresult = <<{}>>

\* the ids of the objects of an answer
AnsweredIds(resp) ==
    IF resp.hasValue THEN { resp.value[i].id : i \in 1..Len(resp.value) }
    ELSE {}

\* C19: the ids of the batch request are duplicate-free and are the distinct
\* ids of the input; the returned mapping has one key per directory object
\* of the response, the object's id, and holds an object of the response
\* under it.
C19_BatchIdsAndKeys ==
    /\ Len(grequests) <= 1
    /\ \A r \in 1..Len(grequests) :
          LET sent == grequests[r].ids
          IN  /\ \A i, j \in 1..Len(sent) : i # j => sent[i] # sent[j]
              /\ { sent[i] : i \in 1..Len(sent) }
                   = { ids[i] : i \in 1..Len(ids) }
    /\ (gpc = "returned" /\ gresponse # <<>> /\ gresponse[1].ok) =>
          LET map == gresult[1]
              resp == gresponse[1]
          IN  /\ { o.id : o \in map } = AnsweredIds(resp)
              /\ Cardinality(map) = Cardinality(AnsweredIds(resp))
              /\ \A o \in map :
                    \E i \in 1..Len(resp.value) : resp.value[i] = o

\* a list with a repeated id, sent once, and an answer with two objects
C19_Witness ==
    /\ \E i, j \in 1..Len(ids) : i # j /\ ids[i] = ids[j]
    /\ Len(grequests) = 1
    /\ Len(grequests[1].ids) = 2
    /\ gpc = "returned"
    /\ Cardinality(gresult[1]) = 2

(* onQuery, the whole handler: src/src/components/Dashboard.tsx 252-333 *)

\* error messages of the ARM API and of MSAL
MsgTokenExpired == "The access token has expired"
MsgWrongIssuer ==
    "The access token is from the wrong issuer, it must match tenant 7a403c1e"
MsgAuthorizationFailed ==
    "The client does not have authorization to perform action"
MsgUserCancelled == "user_cancelled: User cancelled the flow"

\* the substrings among '403', '401', 'authorization', 'unauthorized' that
\* the text of a message contains
MessageMarkers(body) ==
    CASE body = MsgWrongIssuer -> {"403"}
      [] body = MsgAuthorizationFailed -> {"authorization"}
      [] OTHER -> {}

\* the errors a fetch throws (arm.ts 72): `API request failed: ${status}
\* ${statusText} - ${the body's message, else the client's}`; status 0
\* stands for no response
FetchErrors ==
    { [kind |-> "http", status |-> 401, body |-> MsgTokenExpired],
      [kind |-> "http", status |-> 401, body |-> MsgWrongIssuer],
      [kind |-> "http", status |-> 403, body |-> MsgAuthorizationFailed],
      [kind |-> "http", status |-> 404, body |-> MsgAxios],
      [kind |-> "http", status |-> 500, body |-> MsgAxios],
      [kind |-> "http", status |-> 0, body |-> MsgNetwork] }

\* the errors acquireTokenPopup rejects with
TokenErrors == { [kind |-> "msal", status |-> 0, body |-> MsgUserCancelled] }

NoError == [kind |-> "none", status |-> 0, body |-> ""]

\* `errorMessage.includes(marker)`: the status is part of a fetch error's
\* message, the status texts ('Unauthorized', 'Forbidden') hold no marker
ErrorMessageIncludes(err, marker) ==
    \/ err.kind = "http" /\ err.status = 401 /\ marker = "401"
    \/ err.kind = "http" /\ err.status = 403 /\ marker = "403"
    \/ marker \in MessageMarkers(err.body)

\* lines 322-328: which text setError is called with
ErrorHint(err) ==
    IF ErrorMessageIncludes(err, "403")
       \/ ErrorMessageIncludes(err, "authorization")
      THEN "Permission denied"
    ELSE IF ErrorMessageIncludes(err, "401")
            \/ ErrorMessageIncludes(err, "unauthorized")
      THEN "Authentication failed"
    ELSE "none"

\* the lists a role-assignment fetch returns
FetchedAssignmentLists ==
    { <<>>,
      <<[principalId |-> "p1", scope |-> SubRoot("s1")]>>,
      <<[principalId |-> "p1", scope |-> ResX],
        [principalId |-> "p1", scope |-> SubRoot("s1")]>>,
      <<[principalId |-> "", scope |-> ResX],
        [principalId |-> "p2", scope |-> SubRoot("s1")]>> }

\* the subscriptions selected when the Query button is pressed
OnQuerySelections == { <<>>, <<"s1">>, <<"s1", "s2">> }

\* what the table and the error line show from an earlier query
OldItems == <<[id |-> ResY, owners |-> <<"Carol">>]>>
OldError == [hint |-> "none", cause |-> [kind |-> "http", status |-> 500,
                                         body |-> MsgAxios]]

\* a fetch that was called and has not settled
Pending == [state |-> "pending", value |-> <<>>, reason |-> NoError]
NotStarted == [state |-> "notStarted", value |-> <<>>, reason |-> NoError]

\* a map callback that awaits the resources before it asks for the owners
StartedFetchesResourcesFirst(selected) ==
    [k \in 1..Len(selected) |->
       [subscription |-> selected[k], resources |-> Pending,
        ownerAssignments |-> NotStarted]]

\* lines 262-268: the map callback calls both fetches of every subscription
\* before its first await
StartedFetches(selected) ==
    [k \in 1..Len(selected) |->
       [subscription |-> selected[k], resources |-> Pending,
        ownerAssignments |-> Pending]]

\* `result.ownerAssignments.map(r => r.properties.principalId)` of every
\* result, flattened
RECURSIVE FlatPrincipalIds(_)
FlatPrincipalIds(results) ==
    IF results = <<>> THEN <<>>
    ELSE [i \in 1..Len(Head(results).ownerAssignments) |->
            Head(results).ownerAssignments[i].principalId]
         \o FlatPrincipalIds(Tail(results))

\* a list of principal ids with each id once
AllPrincipalIdsUnique(results) ==
    SetOrder(SelectSeq(FlatPrincipalIds(results), LAMBDA id : Truthy(id)), <<>>)

\* lines 273-275: `allPrincipalIds`
AllPrincipalIds(results) ==
    SelectSeq(FlatPrincipalIds(results), LAMBDA id : Truthy(id))

\* a token request to MSAL that has not settled
TokenRequest(scope, via) ==
    [scope |-> scope, via |-> via, outcome |-> "pending"]

\* the log with its last request settled
Settled(log, outcome) == [log EXCEPT ![Len(log)].outcome = outcome]

\* the catch and finally blocks (lines 319-332)
Catch(err) ==
    /\ stateError' = <<[hint |-> ErrorHint(err), cause |-> err]>>
    /\ loading' = FALSE
    /\ qpc' = "failed"

\* lines 286-317 and the finally block: the owners are joined to the
\* resources and the list is stored
Finish(map) ==
    /\ principalIdToName' = map
    /\ allResources' = AllWithOwners(subscriptionResults, map)
    /\ stateItems' = allResources'
    /\ loading' = FALSE
    /\ qpc' = "done"

\* every fetch of every subscription has returned
AllFetched(promises) ==
    \A k \in 1..Len(promises) :
       /\ promises[k].resources.state = "ok"
       /\ promises[k].ownerAssignments.state = "ok"

\* a handler that opens the popup without a silent attempt
OnQueryStartPopupFirst ==
    /\ qpc = "ready"
    /\ Len(selectedSubscriptions) > 0
    /\ loading' = TRUE
    /\ stateError' = <<>>
    /\ qpc' = "armPopup"
    /\ tokenRequests' = Append(tokenRequests, TokenRequest("arm", "popup"))
    /\ UNCHANGED <<selectedSubscriptions, subscriptionResults,
                   principalIdToName, allResources, stateItems,
                   subscriptionPromises, fvars, dvars, ovars, gvars, yvars>>

\* lines 253-259: the guard, setLoading(true), setError(null), and the
\* silent token request for ARM
OnQueryStart ==
    /\ qpc = "ready"
    /\ Len(selectedSubscriptions) > 0
    /\ loading' = TRUE
    /\ stateError' = <<>>
    /\ qpc' = "armSilent"
    /\ tokenRequests' = Append(tokenRequests, TokenRequest("arm", "silent"))
    /\ UNCHANGED <<selectedSubscriptions, subscriptionResults,
                   principalIdToName, allResources, stateItems,
                   subscriptionPromises, fvars, dvars, ovars, gvars, yvars>>

\* acquireTokenSilent rejects: the popup is opened (lines 57-63)
ArmSilentFails ==
    /\ qpc = "armSilent"
    /\ qpc' = "armPopup"
    /\ tokenRequests' = Append(Settled(tokenRequests, "failed"),
                              TokenRequest("arm", "popup"))
    /\ UNCHANGED <<selectedSubscriptions, subscriptionResults,
                   principalIdToName, allResources, loading, stateError,
                   stateItems, subscriptionPromises,
                   fvars, dvars, ovars, gvars, yvars>>

\* the ARM token arrives, silently or from the popup: the fetches start
ArmTokenAcquired ==
    /\ qpc \in {"armSilent", "armPopup"}
    /\ subscriptionPromises' = StartedFetches(selectedSubscriptions)
    /\ qpc' = "fetching"
    /\ tokenRequests' = Settled(tokenRequests, "ok")
    /\ UNCHANGED <<selectedSubscriptions, subscriptionResults,
                   principalIdToName, allResources, loading, stateError,
                   stateItems, fvars, dvars, ovars, gvars, yvars>>

\* the popup rejects: the query fails
ArmPopupFails(err) ==
    /\ qpc = "armPopup"
    /\ Catch(err)
    /\ tokenRequests' = Settled(tokenRequests, "failed")
    /\ UNCHANGED <<selectedSubscriptions, subscriptionResults,
                   principalIdToName, allResources, stateItems,
                   subscriptionPromises, fvars, dvars, ovars, gvars, yvars>>

\* a fetch returns `value`; when it is the last one, Promise.all resolves
\* and the silent token request for Graph is made (lines 270-279)
FetchResolves(k, kind, value) ==
    /\ qpc = "fetching"
    /\ subscriptionPromises[k][kind].state = "pending"
    /\ LET after == [subscriptionPromises EXCEPT ![k][kind] =
                       [state |-> "ok", value |-> value, reason |-> NoError]]
       IN  /\ subscriptionPromises' = after
           /\ IF AllFetched(after)
                THEN /\ subscriptionResults' =
                          [i \in 1..Len(after) |->
                             [subscription |-> after[i].subscription,
                              resources |-> after[i].resources.value,
                              ownerAssignments |->
                                 after[i].ownerAssignments.value]]
                     /\ qpc' = "graphSilent"
                     /\ tokenRequests' =
                          Append(tokenRequests,
                                 TokenRequest("graph", "silent"))
                ELSE UNCHANGED <<subscriptionResults, qpc, tokenRequests>>
    /\ UNCHANGED <<selectedSubscriptions, principalIdToName, allResources,
                   loading, stateError, stateItems,
                   fvars, dvars, ovars, gvars, yvars>>

\* a rejected fetch that counts as an empty list
FetchRejectsTolerated(k, kind, err) ==
    /\ qpc = "fetching"
    /\ subscriptionPromises[k][kind].state = "pending"
    /\ LET after == [subscriptionPromises EXCEPT ![k][kind] =
                       [state |-> "failed", value |-> <<>>, reason |-> err]]
           done == \A i \in 1..Len(after) :
                      /\ after[i].resources.state # "pending"
                      /\ after[i].ownerAssignments.state # "pending"
       IN  /\ subscriptionPromises' = after
           /\ IF done
                THEN /\ subscriptionResults' =
                          [i \in 1..Len(after) |->
                             [subscription |-> after[i].subscription,
                              resources |-> after[i].resources.value,
                              ownerAssignments |->
                                 after[i].ownerAssignments.value]]
                     /\ qpc' = "graphSilent"
                     /\ tokenRequests' =
                          Append(tokenRequests,
                                 TokenRequest("graph", "silent"))
                ELSE UNCHANGED <<subscriptionResults, qpc, tokenRequests>>
    /\ UNCHANGED <<selectedSubscriptions, principalIdToName, allResources,
                   loading, stateError, stateItems,
                   fvars, dvars, ovars, gvars, yvars>>

\* a fetch throws: both Promise.all reject and the query fails; what the
\* other fetches answer later is dropped
FetchRejects(k, kind, err) ==
    /\ qpc = "fetching"
    /\ subscriptionPromises[k][kind].state = "pending"
    /\ subscriptionPromises' =
          [subscriptionPromises EXCEPT ![k][kind] =
             [state |-> "failed", value |-> <<>>, reason |-> err]]
    /\ Catch(err)
    /\ UNCHANGED <<tokenRequests, selectedSubscriptions,
                   subscriptionResults, principalIdToName, allResources,
                   stateItems,
                   fvars, dvars, ovars, gvars, yvars>>

\* acquireTokenSilent rejects for Graph: the popup is opened
GraphSilentFails ==
    /\ qpc = "graphSilent"
    /\ qpc' = "graphPopup"
    /\ tokenRequests' = Append(Settled(tokenRequests, "failed"),
                              TokenRequest("graph", "popup"))
    /\ UNCHANGED <<selectedSubscriptions, subscriptionResults,
                   principalIdToName, allResources, loading, stateError,
                   stateItems, subscriptionPromises,
                   fvars, dvars, ovars, gvars, yvars>>

\* the Graph token arrives: getPrincipalsByIds is called (line 281)
GraphTokenAcquired ==
    /\ qpc \in {"graphSilent", "graphPopup"}
    /\ ids' = AllPrincipalIds(subscriptionResults)
    /\ gpc' = "called"
    /\ qpc' = "resolving"
    /\ tokenRequests' = Settled(tokenRequests, "ok")
    /\ UNCHANGED <<selectedSubscriptions, subscriptionResults,
                   principalIdToName, allResources, loading, stateError,
                   stateItems, subscriptionPromises,
                   grequests, gresponse, gresult, fvars, dvars, ovars, yvars>>

\* a rejected Graph popup that fails the query
GraphPopupFailsQuery(err) ==
    /\ qpc = "graphPopup"
    /\ Catch(err)
    /\ tokenRequests' = Settled(tokenRequests, "failed")
    /\ UNCHANGED <<selectedSubscriptions, subscriptionResults,
                   principalIdToName, allResources, stateItems,
                   subscriptionPromises, fvars, dvars, ovars, gvars, yvars>>

\* the Graph popup rejects: the inner catch leaves the mapping empty
GraphPopupFails(err) ==
    /\ qpc = "graphPopup"
    /\ Finish({})
    /\ tokenRequests' = Settled(tokenRequests, "failed")
    /\ UNCHANGED <<selectedSubscriptions, subscriptionResults, stateError,
                   subscriptionPromises, fvars, dvars, ovars, gvars, yvars>>

\* getPrincipalsByIds has returned its mapping
ResolverReturns ==
    /\ qpc = "resolving"
    /\ gpc = "returned"
    /\ Finish(gresult[1])
    /\ UNCHANGED <<tokenRequests, selectedSubscriptions,
                   subscriptionResults, stateError,
                   subscriptionPromises, fvars, dvars, ovars, gvars, yvars>>

\* the dashboard before the Query button is pressed
OnQueryInit ==
    /\ YIdle
    /\ FetchIdle
    /\ DeleteIdle
    /\ OwnerIdle
    /\ GraphIdle
    /\ selectedSubscriptions \in OnQuerySelections
    /\ subscriptionResults = <<>>
    /\ principalIdToName = {}
    /\ allResources = <<>>
    /\ qpc = "ready"
    /\ loading = FALSE
    /\ stateError \in {<<>>, <<OldError>>}
    /\ stateItems \in {<<>>, OldItems}
    /\ subscriptionPromises = <<>>
    /\ tokenRequests = <<>>

OnQueryNext ==
    \/ OnQueryStart
    \/ ArmSilentFails
    \/ ArmTokenAcquired
    \/ \E err \in TokenErrors : ArmPopupFails(err)
    \/ \E k \in 1..Len(subscriptionPromises), value \in ResourceLists :
          FetchResolves(k, "resources", value)
    \/ \E k \in 1..Len(subscriptionPromises),
          value \in FetchedAssignmentLists :
          FetchResolves(k, "ownerAssignments", value)
    \/ \E k \in 1..Len(subscriptionPromises), err \in FetchErrors,
          kind \in {"resources", "ownerAssignments"} :
          FetchRejects(k, kind, err)
    \/ GraphSilentFails
    \/ GraphTokenAcquired
    \/ \E err \in TokenErrors : GraphPopupFails(err)
    \/ GraphCall
    \/ \E resp \in GraphResponses : GraphAnswers(resp)
    \/ \E resp \in GraphResponses : GraphFails(resp)
    \/ ResolverReturns

SpecOnQuery == OnQueryInit /\ [][OnQueryNext]_vars

(* onQuery, the whole handler: the claims *)

\* the query is past its fetches
PastFetches == qpc \in {"graphSilent", "graphPopup", "resolving", "done"}

\* a fetch of the running query has thrown
SomeFetchFailed ==
    \E k \in 1..Len(subscriptionPromises) :
       \/ subscriptionPromises[k].resources.state = "failed"
       \/ subscriptionPromises[k].ownerAssignments.state = "failed"

\* the owner assignments of the k-th subscription that may name an owner of
\* the resource `id`
NamingAssignments(k, id) ==
    LET ras == subscriptionResults[k].ownerAssignments
        root == <<"subscriptions", subscriptionResults[k].subscription>>
    IN  { ras[i] : i \in { n \in 1..Len(ras) :
            ras[n].principalId # "" /\ ras[n].scope \in {id, root} } }

\* C15: once every resource and role-assignment fetch has returned, the
\* query cannot fail any more; whatever the directory step does (token
\* rejected, request failed, principals missing from the answer) it ends
\* with the fetched resources as the result list, and an owner without a
\* resolved display name is shown by the raw principal id.
C15_ItemsWhateverGraphDoes ==
    /\ (subscriptionPromises # <<>> /\ AllFetched(subscriptionPromises)) =>
          /\ PastFetches
          /\ stateError = <<>>
          /\ qpc # "done" => ENABLED OnQueryNext
    /\ qpc = "done" =>
          /\ AllFetched(subscriptionPromises)
          /\ ~loading
          /\ stateItems = allResources
          /\ Len(stateItems) = ItemsBefore(Len(subscriptionResults) + 1)
          /\ \A k \in 1..Len(subscriptionResults) :
                /\ subscriptionResults[k].resources
                     = subscriptionPromises[k].resources.value
                /\ subscriptionResults[k].ownerAssignments
                     = subscriptionPromises[k].ownerAssignments.value
                /\ \A j \in 1..Len(subscriptionResults[k].resources) :
                      LET item == ItemOf(k, j)
                          id == subscriptionResults[k].resources[j].id
                      IN  /\ item.id = id
                          /\ \A n \in 1..Len(item.owners) :
                                \E ra \in NamingAssignments(k, id) :
                                   item.owners[n] =
                                     IF \E o \in principalIdToName :
                                           /\ o.id = ra.principalId
                                           /\ o.displayName
                                                \notin {Undefined, ""}
                                       THEN ShownName(ra)
                                       ELSE ra.principalId
          /\ (gpc = "idle" \/ (gresponse # <<>> /\ ~gresponse[1].ok)) =>
                principalIdToName = {}

\* the Graph token was refused in the popup, and the query ended with a
\* resource whose owner is shown by the raw principal id
C15_Witness ==
    /\ qpc = "done"
    /\ gpc = "idle"
    /\ \E i \in 1..Len(stateItems) : stateItems[i].owners = <<"p1">>

\* C16: when the resource or the role-assignment fetch of any one
\* subscription fails, the whole query fails: an error message is set, no
\* resources are stored (the result list stays as it was before the query,
\* which only a finished query changes), and no directory request is made.
C16_OneFailureFailsAll ==
    /\ [](SomeFetchFailed =>
             /\ qpc = "failed"
             /\ stateError # <<>>
             /\ stateError[1].cause \in FetchErrors
             /\ ~loading
             /\ allResources = <<>>
             /\ grequests = <<>>
             /\ gpc = "idle")
    /\ [][qpc' # "done" => stateItems' = stateItems]_vars

\* two subscriptions: the fetches of the first returned, one of the second
\* threw, and the list of an earlier query is still shown
C16_Witness ==
    /\ Len(subscriptionPromises) = 2
    /\ subscriptionPromises[1].resources.state = "ok"
    /\ subscriptionPromises[1].resources.value # <<>>
    /\ subscriptionPromises[1].ownerAssignments.state = "ok"
    /\ subscriptionPromises[2].ownerAssignments.state = "failed"
    /\ qpc = "failed"
    /\ stateItems = OldItems

\* C17: the two fetches of every selected subscription are both started
\* before either is awaited; the directory request is issued at most once in
\* a query and only after every fetch of every subscription has returned.
C17_FetchesParallelGraphAfter ==
    /\ Len(subscriptionPromises) \in {0, Len(selectedSubscriptions)}
    /\ \A k \in 1..Len(subscriptionPromises) :
          /\ subscriptionPromises[k].resources.state # "notStarted"
          /\ subscriptionPromises[k].ownerAssignments.state # "notStarted"
    /\ Len(grequests) <= 1
    /\ (gpc # "idle" \/ grequests # <<>>) =>
          /\ subscriptionPromises # <<>>
          /\ AllFetched(subscriptionPromises)

\* the directory request of a query of two subscriptions
C17_Witness ==
    /\ Len(subscriptionPromises) = 2
    /\ Len(grequests) = 1
    /\ gpc = "awaiting"

\* how often the principal id `p` occurs in the owner assignments fetched
OccurrencesFetched(p) ==
    Cardinality(UNION {
        { <<k, i>> : i \in { n \in
            1..Len(subscriptionResults[k].ownerAssignments) :
            subscriptionResults[k].ownerAssignments[n].principalId = p } } :
        k \in 1..Len(subscriptionResults) })

\* C18 as stated: no principal id occurs twice in the list the query passes
\* to getPrincipalsByIds.
C18_ArgumentDeduplicated ==
    gpc # "idle" => \A i, j \in 1..Len(ids) : i # j => ids[i] # ids[j]

\* C18: the list the query passes to getPrincipalsByIds holds the non-empty
\* principal id of every fetched owner assignment, once per assignment, so
\* an id may occur twice; the duplicates are removed by getPrincipalsByIds,
\* whose request carries each id once.
C18_ArgumentAsFetched ==
    gpc # "idle" =>
        /\ \A i \in 1..Len(ids) : ids[i] \in PrincipalIds
        /\ \A p \in PrincipalIds :
              Cardinality({ i \in 1..Len(ids) : ids[i] = p })
                = OccurrencesFetched(p)
        /\ \A r \in 1..Len(grequests) :
              \A i, j \in 1..Len(grequests[r].ids) :
                 i # j => grequests[r].ids[i] # grequests[r].ids[j]

\* a principal that owns in both subscriptions: twice in the argument, once
\* in the request
C18_Witness ==
    /\ Len(grequests) = 1
    /\ \E i, j \in 1..Len(ids) : i # j /\ ids[i] = ids[j]
    /\ Len(grequests[1].ids) < Len(ids)

\* C20: a failure caused by a 401 is shown with the hint to sign in again,
\* one caused by a 403 with the hint to get a role granted, never the other
\* way round.
C20_HintFollowsStatus ==
    (qpc = "failed" /\ stateError[1].cause.kind = "http") =>
        /\ stateError[1].cause.status = 401 =>
              stateError[1].hint = "Authentication failed"
        /\ stateError[1].cause.status = 403 =>
              stateError[1].hint = "Permission denied"

\* C27: a token acquisition asks MSAL silently first and opens the popup
\* only after that silent request has failed, and at most once; when the
\* popup fails too, the error reaches the caller: for the ARM token the
\* query fails with the token error before any fetch is started, for the
\* Graph token the query finishes with an empty name mapping (the owners
\* are shown by their principal ids) and no error.
C27_SilentThenPopupOnce ==
    \A i \in 1..Len(tokenRequests) :
       LET r == tokenRequests[i]
       IN  /\ r.via = "silent" =>
                 \A j \in 1..(i - 1) : tokenRequests[j].scope # r.scope
           /\ r.via = "popup" =>
                 /\ i > 1
                 /\ tokenRequests[i - 1] =
                       [scope |-> r.scope, via |-> "silent",
                        outcome |-> "failed"]
                 /\ \A j \in 1..Len(tokenRequests) :
                       (j # i /\ tokenRequests[j].scope = r.scope)
                          => tokenRequests[j].via = "silent"
           /\ (r.via = "popup" /\ r.outcome = "failed" /\ r.scope = "arm") =>
                 /\ qpc = "failed"
                 /\ ~loading
                 /\ stateError # <<>>
                 /\ stateError[1].cause \in TokenErrors
                 /\ subscriptionPromises = <<>>
           /\ (r.via = "popup" /\ r.outcome = "failed"
                  /\ r.scope = "graph") =>
                 /\ qpc = "done"
                 /\ ~loading
                 /\ stateError = <<>>
                 /\ principalIdToName = {}
                 /\ grequests = <<>>
                 /\ stateItems = AllWithOwners(subscriptionResults, {})

\* both silent requests and the Graph popup failed, the ARM popup did not:
\* the query ended with a resource whose owner is a raw principal id
C27_Witness ==
    /\ Len(tokenRequests) = 4
    /\ tokenRequests[2] =
          [scope |-> "arm", via |-> "popup", outcome |-> "ok"]
    /\ tokenRequests[4] =
          [scope |-> "graph", via |-> "popup", outcome |-> "failed"]
    /\ \E n \in 1..Len(stateItems) : stateItems[n].owners = <<"p1">>

(* parseResourceGroupFromId: src/src/api/arm.ts 78-81 *)

MaxSegments == 4

\* the path segments of the ids; "/a/b/" is <<"a", "b", "">>
ParseSegments ==
    {"subscriptions", "resourceGroups", "RESOURCEGROUPS", "RG1", "rg2", ""}

ParseIds == UNION { [1..n -> ParseSegments] : n \in 0..MaxSegments }

\* what the `i` flag compares: a segment in lower case
LowerCase(seg) ==
    CASE seg \in {"resourceGroups", "RESOURCEGROUPS"} -> "resourcegroups"
      [] seg = "RG1" -> "rg1"
      [] OTHER -> seg

\* a parse that does not ask for the '/' after the group's name
parseResourceGroupNoSlash(segs) ==
    LET hits == { i \in 1..(Len(segs) - 1) :
                    LowerCase(segs[i]) = "resourcegroups" /\ segs[i + 1] # "" }
    IN  IF hits = {} THEN Undefined
        ELSE segs[(CHOOSE i \in hits : \A j \in hits : i <= j) + 1]

\* /\/resourceGroups\/([^\/]+)\//i.exec(resourceId)?.[1]: the leftmost
\* 'resourceGroups' segment, in any case, that a non-empty segment and a
\* further '/' follow
parseResourceGroupFromId(segs) ==
    LET hits == { i \in 1..(Len(segs) - 2) :
                    LowerCase(segs[i]) = "resourcegroups" /\ segs[i + 1] # "" }
    IN  IF hits = {} THEN Undefined
        ELSE segs[(CHOOSE i \in hits : \A j \in hits : i <= j) + 1]

ParseReturns ==
    /\ ppc = "called"
    /\ presult' = parseResourceGroupFromId(parsedId)
    /\ ppc' = "returned"
    /\ UNCHANGED <<parsedId, fvars, dvars, qvars, ovars, gvars, hvars,
                   zvars>>

ParseInit ==
    /\ FetchIdle
    /\ DeleteIdle
    /\ QueryIdle
    /\ OwnerIdle
    /\ GraphIdle
    /\ HandlerIdle
    /\ ZIdle
    /\ parsedId \in ParseIds
    /\ ppc = "called"
    /\ presult = Undefined

ParseNext == ParseReturns

SpecParse == ParseInit /\ [][ParseNext]_vars

\* the positions of the 'resourceGroups' segments of an id, in any case
GroupMarks(segs) ==
    { i \in 1..Len(segs) : segs[i] \in {"resourceGroups", "RESOURCEGROUPS"} }

\* C23 as stated: the result is the segment, when there is a non-empty one,
\* that follows the first 'resourceGroups' segment, matched in any case, and
\* no value for an id without such a segment.
C23_SegmentAfterFirstMark ==
    ppc = "returned" =>
        IF GroupMarks(parsedId) = {} THEN presult = Undefined
        ELSE LET first == CHOOSE i \in GroupMarks(parsedId) :
                             \A j \in GroupMarks(parsedId) : i <= j
             IN  (first < Len(parsedId) /\ parsedId[first + 1] # "") =>
                     presult = parsedId[first + 1]

\* the group an id names: the non-empty segment after the leftmost
\* 'resourceGroups' that is followed by such a segment and one more '/'
RECURSIVE GroupNamed(_)
GroupNamed(segs) ==
    IF Len(segs) < 3 THEN Undefined
    ELSE IF Head(segs) \in {"resourceGroups", "RESOURCEGROUPS"} /\ segs[2] # ""
         THEN segs[2]
         ELSE GroupNamed(Tail(segs))

\* C23: the result is the non-empty segment that follows the first
\* 'resourceGroups' segment (in any case) after which such a segment and a
\* further '/' come, and no value when the id has none: an id that ends with
\* the group's name gives no value.
C23_SegmentBeforeNextSlash ==
    ppc = "returned" => presult = GroupNamed(parsedId)

\* the id of a resource group itself, for which nothing is returned
C23_Witness ==
    /\ parsedId = <<"subscriptions", "rg2", "resourceGroups", "RG1">>
    /\ ppc = "returned"
    /\ presult = Undefined

----------------------------------------------------------------------------
(* AzureAccountManager *)

\* how many getSubscriptions and getTenants calls are made
MaxCalls == 3

\* the items of `data.value` of the subscriptions endpoint; isDefault is
\* <<>> when the item does not carry the field
RawS1 == [subscriptionId |-> "s1", displayName |-> "Sub 1",
          tenantId |-> "t1", state |-> "Enabled", isDefault |-> <<>>]
RawS2 == [subscriptionId |-> "s2", displayName |-> "Sub 2",
          tenantId |-> "t2", state |-> "Enabled", isDefault |-> <<TRUE>>]

\* the items of `data.value` of the tenants endpoint
RawT1 == [tenantId |-> "t1", displayName |-> "Tenant 1",
          defaultDomain |-> "t1.example"]
RawT2 == [tenantId |-> "t2", displayName |-> Undefined,
          defaultDomain |-> Undefined]

SubscriptionPayloads == { <<>>, <<RawS2, RawS1>> }
TenantPayloads == { <<>>, <<RawT1, RawT2>> }

\* what the fetch of a call resolves with: a 2xx response whose body has
\* a `value` array (body = <<the array>>) or is not of that form
\* (body = <<>>), or a response with another status
ManagerResponses(kind) ==
    [ok : {TRUE}, status : {200},
     body : { <<>> } \cup
            { <<p>> : p \in IF kind = "subscriptions"
                              THEN SubscriptionPayloads
                              ELSE TenantPayloads }]
    \cup [ok : {FALSE}, status : {403}, body : { <<>> }]

ManagerNoError == [kind |-> "none", status |-> 0]

\* the arrow function of lines 50-56
MapSubscription(sub) ==
    [id |-> sub.subscriptionId, name |-> sub.displayName,
     tenantId |-> sub.tenantId, state |-> sub.state,
     isDefault |-> IF sub.isDefault = <<>> THEN FALSE ELSE sub.isDefault[1]]

\* the arrow function of lines 88-92
MapTenant(tenant) ==
    [id |-> tenant.tenantId,
     displayName |-> Or(tenant.displayName, "Unknown Tenant"),
     defaultDomain |-> Or(tenant.defaultDomain, "")]

\* `data.value.map(...)` of either function
MapValue(kind, value) ==
    [i \in 1..Len(value) |->
       IF kind = "subscriptions" THEN MapSubscription(value[i])
       ELSE MapTenant(value[i])]

\* line 102
getSubscriptionsByTenant(tenantId) ==
    SelectSeq(managerSubscriptions, LAMBDA sub : sub.tenantId = tenantId)

\* line 114; `find` gives the first match: <<>> for undefined, else <<it>>
findSubscriptionById(subscriptionId) ==
    LET found == SelectSeq(managerSubscriptions,
                           LAMBDA sub : sub.id = subscriptionId)
    IN  IF found = <<>> THEN <<>> ELSE <<found[1]>>

\* line 118
findTenantById(tenantId) ==
    LET found == SelectSeq(managerTenants,
                           LAMBDA tenant : tenant.id = tenantId)
    IN  IF found = <<>> THEN <<>> ELSE <<found[1]>>

\* a call that has just been made
NewCall(kind) ==
    [kind |-> kind, state |-> "fetching", body |-> <<>>, result |-> <<>>,
     error |-> ManagerNoError]

\* the call ends by rethrowing `err` from its catch block
Threw(c, err) ==
    /\ calls' = [calls EXCEPT ![c].state = "threw", ![c].error = err]
    /\ UNCHANGED completions

\* lines 20-25
GetInstance ==
    /\ IF instance = 0
         THEN /\ constructed' = constructed + 1
              /\ instance' = constructed'
         ELSE UNCHANGED <<instance, constructed>>
    /\ handles' = handles \cup {instance'}
    /\ UNCHANGED <<managerSubscriptions, managerTenants, calls, completions,
                   mread, fvars, dvars, qvars, ovars, gvars, hvars, pvars,
                   avars>>

\* getSubscriptions or getTenants is called and sends its request
CallStart(kind) ==
    /\ instance # 0
    /\ Len(calls) < MaxCalls
    /\ calls' = Append(calls, NewCall(kind))
    /\ UNCHANGED <<instance, constructed, handles, managerSubscriptions,
                   managerTenants, completions, mread,
                   fvars, dvars, qvars, ovars, gvars, hvars, pvars,
                   avars>>

\* a version of CallResponds that empties the cache on an error response
CallRespondsClearing(c, resp) ==
    /\ calls[c].state = "fetching"
    /\ IF resp.ok
         THEN /\ calls' = [calls EXCEPT ![c].state = "parsing",
                                        ![c].body = resp.body]
              /\ UNCHANGED <<completions, managerSubscriptions,
                             managerTenants>>
         ELSE /\ Threw(c, [kind |-> "http", status |-> resp.status])
              /\ managerSubscriptions' = <<>>
              /\ managerTenants' = <<>>
    /\ UNCHANGED <<instance, constructed, handles, mread,
                   fvars, dvars, qvars, ovars, gvars, hvars, pvars,
                   avars>>

\* `await fetch` resolves: a response that is not ok is thrown as an
\* Error with its status (lines 39-47, 77-85)
CallResponds(c, resp) ==
    /\ calls[c].state = "fetching"
    /\ IF resp.ok
         THEN /\ calls' = [calls EXCEPT ![c].state = "parsing",
                                        ![c].body = resp.body]
              /\ UNCHANGED completions
         ELSE Threw(c, [kind |-> "http", status |-> resp.status])
    /\ UNCHANGED <<instance, constructed, handles, managerSubscriptions,
                   managerTenants, mread,
                   fvars, dvars, qvars, ovars, gvars, hvars, pvars,
                   avars>>

\* `await fetch` rejects: no response
CallNetworkFails(c) ==
    /\ calls[c].state = "fetching"
    /\ Threw(c, [kind |-> "network", status |-> 0])
    /\ UNCHANGED <<instance, constructed, handles, managerSubscriptions,
                   managerTenants, mread,
                   fvars, dvars, qvars, ovars, gvars, hvars, pvars,
                   avars>>

\* `await response.json()` settles: the mapped list is stored and
\* returned (lines 49-58, 87-94); a body without a `value` array throws
\* before anything is stored
CallParses(c) ==
    /\ calls[c].state = "parsing"
    /\ IF calls[c].body = <<>>
         THEN /\ Threw(c, [kind |-> "type", status |-> 0])
              /\ UNCHANGED <<managerSubscriptions, managerTenants>>
         ELSE LET list == MapValue(calls[c].kind, calls[c].body[1])
              IN  /\ calls' = [calls EXCEPT ![c].state = "returned",
                                             ![c].result = <<list>>]
                  /\ completions' = Append(completions, c)
                  /\ IF calls[c].kind = "subscriptions"
                       THEN /\ managerSubscriptions' = list
                            /\ UNCHANGED managerTenants
                       ELSE /\ managerTenants' = list
                            /\ UNCHANGED managerSubscriptions
    /\ UNCHANGED <<instance, constructed, handles, mread,
                   fvars, dvars, qvars, ovars, gvars, hvars, pvars,
                   avars>>

\* one of the three readers is called
ManagerReads(op, arg) ==
    /\ instance # 0
    /\ mread' = <<[op |-> op, arg |-> arg,
                   result |->
                     CASE op = "getSubscriptionsByTenant" ->
                            getSubscriptionsByTenant(arg)
                       [] op = "findSubscriptionById" ->
                            findSubscriptionById(arg)
                       [] op = "findTenantById" -> findTenantById(arg)]>>
    /\ UNCHANGED <<instance, constructed, handles, managerSubscriptions,
                   managerTenants, calls, completions,
                   fvars, dvars, qvars, ovars, gvars, hvars, pvars,
                   avars>>

\* before the module is evaluated; line 122 is the first getInstance
ManagerInit ==
    /\ FetchIdle
    /\ DeleteIdle
    /\ QueryIdle
    /\ OwnerIdle
    /\ GraphIdle
    /\ HandlerIdle
    /\ ParseIdle
    /\ DashIdle
    /\ ManagerIdle

ManagerNext ==
    \/ GetInstance
    \/ \E kind \in {"subscriptions", "tenants"} : CallStart(kind)
    \/ \E c \in 1..Len(calls) :
          \E resp \in ManagerResponses(calls[c].kind) : CallResponds(c, resp)
    \/ \E c \in 1..Len(calls) : CallNetworkFails(c)
    \/ \E c \in 1..Len(calls) : CallParses(c)
    \/ ManagerReads("getSubscriptionsByTenant", "t1")
    \/ ManagerReads("findSubscriptionById", "s1")
    \/ ManagerReads("findTenantById", "t2")

SpecManager == ManagerInit /\ [][ManagerNext]_vars

(* AzureAccountManager: the claims *)

\* the result of the call of that kind that returned last, [] when none did
LastReturned(kind) ==
    LET done == { i \in 1..Len(completions) :
                    /\ calls[completions[i]].kind = kind
                    /\ calls[completions[i]].state = "returned" }
    IN  IF done = {} THEN <<>>
        ELSE calls[completions[CHOOSE i \in done : \A j \in done : j <= i]]
               .result[1]

\* the step ends call c by a throw
Throws(c) ==
    /\ c \in 1..Len(calls)
    /\ calls[c].state \in {"fetching", "parsing"}
    /\ calls'[c].state = "threw"

\* C28: one AzureAccountManager object is ever made and handed out; its
\* cached subscription list (tenant list) is the result of the
\* getSubscriptions (getTenants) call that returned last, however the calls
\* overlap; a call that fails throws an error and leaves both lists as they
\* were; the three readers return what the cached lists hold and change
\* nothing.
C28_CacheIsLastSuccess ==
    /\ [](/\ constructed <= 1
          /\ Cardinality(handles) <= 1
          /\ managerSubscriptions = LastReturned("subscriptions")
          /\ managerTenants = LastReturned("tenants")
          /\ \A c \in 1..Len(calls) :
                calls[c].state = "threw" =>
                   /\ calls[c].error # ManagerNoError
                   /\ calls[c].result = <<>>)
    /\ [][(\E c \in 1..Len(calls) : Throws(c))
            => UNCHANGED <<managerSubscriptions, managerTenants>>]_vars
    /\ [][mread' # mread =>
            /\ UNCHANGED <<managerSubscriptions, managerTenants, calls>>
            /\ LET r == mread'[1]
               IN  r.result =
                     CASE r.op = "getSubscriptionsByTenant" ->
                            SelectSeq(managerSubscriptions,
                                      LAMBDA sub : sub.tenantId = r.arg)
                       [] r.op = "findSubscriptionById" ->
                            IF \E i \in 1..Len(managerSubscriptions) :
                                  managerSubscriptions[i].id = r.arg
                              THEN <<managerSubscriptions[
                                       CHOOSE i \in
                                          1..Len(managerSubscriptions) :
                                          managerSubscriptions[i].id = r.arg]>>
                              ELSE <<>>
                       [] r.op = "findTenantById" ->
                            IF \E i \in 1..Len(managerTenants) :
                                  managerTenants[i].id = r.arg
                              THEN <<managerTenants[
                                       CHOOSE i \in 1..Len(managerTenants) :
                                          managerTenants[i].id = r.arg]>>
                              ELSE <<>>]_vars

\* two getSubscriptions calls overlapped: the second returned first, the
\* first returned after it, a third call failed, and the cache holds the
\* first call's list, of which a reader returned a part
C28_Witness ==
    /\ Len(calls) = 3
    /\ completions = <<2, 1>>
    /\ calls[1].kind = "subscriptions" /\ calls[1].state = "returned"
    /\ calls[2].kind = "subscriptions" /\ calls[2].state = "returned"
    /\ calls[3].kind = "subscriptions" /\ calls[3].state = "threw"
    /\ calls[1].result # calls[2].result
    /\ managerSubscriptions = calls[1].result[1]
    /\ managerSubscriptions # <<>>
    /\ mread # <<>>
    /\ mread[1].op = "getSubscriptionsByTenant"
    /\ mread[1].result # <<>>

----------------------------------------------------------------------------
(* Dashboard: the account selection, with the loads and queries running *)

\* how many queries the model lets run at a time
MaxQueries == 2

\* what the tenants and the subscriptions endpoints answer with
TenantT1 == [id |-> "t1"]
TenantT2 == [id |-> "t2"]
SubS1 == [id |-> "s1", tenantId |-> "t1"]
SubS2 == [id |-> "s2", tenantId |-> "t1"]
SubS3 == [id |-> "s3", tenantId |-> "t2"]

TenantLists == { <<>>, <<TenantT1, TenantT2>> }
SubscriptionLists == { <<>>, <<SubS3>>, <<SubS1, SubS2>> }

\* what a load or a query can fail with: the popup is refused, the
\* request is forbidden
DashErrors ==
    TokenErrors \cup
    { [kind |-> "http", status |-> 403, body |-> MsgAuthorizationFailed] }

\* `list.some(sub => sub.id === id)`
SomeWithId(list, id) == \E i \in 1..Len(list) : list[i].id = id

\* `list.filter(sub => sub.tenantId === tenant.id)`
OfTenant(list, tenant) ==
    SelectSeq(list, LAMBDA sub : sub.tenantId = tenant.id)

\* lines 236-239
getSubscriptionsForSelectedTenant ==
    IF selectedTenant = <<>> THEN subscriptions
    ELSE OfTenant(subscriptions, selectedTenant[1])

\* a toggle that adds the subscription whether it is selected or not
ToggleAlwaysAdds(prev, subscription) == Append(prev, subscription)

\* the updater of lines 205-214
ToggleSubscription(prev, subscription) ==
    IF SomeWithId(prev, subscription.id)
      THEN SelectSeq(prev, LAMBDA sub : sub.id # subscription.id)
      ELSE Append(prev, subscription)

\* lines 150-171: the selection after a load whose closure holds `held`;
\* what no branch sets stays as it is now
LoadedSelection(held, tenantsData, subscriptionsData) ==
    IF Len(tenantsData) > 0 /\ held.selectedTenant = <<>>
      THEN LET firstTenant == tenantsData[1]
               tenantSubscriptions == OfTenant(subscriptionsData, firstTenant)
           IN  [selectedTenant |-> <<firstTenant>>,
                selectedSubscriptions |->
                   IF Len(tenantSubscriptions) > 0
                     THEN <<tenantSubscriptions[1]>>
                     ELSE selectedSubscriptions]
    ELSE IF held.selectedTenant # <<>>
      THEN LET tenantSubscriptions ==
                  OfTenant(subscriptionsData, held.selectedTenant[1])
               validSubscriptions ==
                  SelectSeq(held.selectedSubscriptions,
                            LAMBDA sub : SomeWithId(tenantSubscriptions,
                                                    sub.id))
           IN  [selectedTenant |-> selectedTenant,
                selectedSubscriptions |->
                   IF Len(validSubscriptions) = 0
                      /\ Len(tenantSubscriptions) > 0
                     THEN <<tenantSubscriptions[1]>>
                     ELSE validSubscriptions]
    ELSE [selectedTenant |-> selectedTenant,
          selectedSubscriptions |-> selectedSubscriptions]

\* the resources a query over `selected` stores: one of each subscription
ItemsOf(selected) ==
    [i \in 1..Len(selected) |->
       [id |-> SubRoot(selected[i].id) \o <<"resourceGroups", "rg1">>,
        owners |-> <<>>]]

\* a list without its n-th entry
Without(list, n) ==
    [i \in 1..(Len(list) - 1) |-> IF i < n THEN list[i] ELSE list[i + 1]]

\* what the account selection never touches
dashRest == <<subscriptionResults, principalIdToName, allResources, qpc,
              subscriptionPromises, tokenRequests,
              fvars, dvars, ovars, gvars, pvars, mvars>>

\* lines 133-136: loadAzureAccounts up to its first await
StartLoad ==
    /\ loadingAccounts' = TRUE
    /\ stateError' = <<>>
    /\ loads' = Append(loads, [selectedTenant |-> selectedTenant,
                               selectedSubscriptions |->
                                  selectedSubscriptions])
    /\ settled' = <<>>

\* lines 125-129: the account appears and the effect starts a load
AccountEffect ==
    /\ ~account
    /\ account' = TRUE
    /\ StartLoad
    /\ UNCHANGED <<tenants, subscriptions, selectedTenant,
                   selectedSubscriptions, queries, loading, stateItems,
                   dashRest>>

\* the Refresh button (lines 536-537) calls loadAzureAccounts
LoadStart ==
    /\ ~loadingAccounts
    /\ account
    /\ StartLoad
    /\ UNCHANGED <<account, tenants, subscriptions, selectedTenant,
                   selectedSubscriptions, queries, loading, stateItems,
                   dashRest>>

\* lines 139-171 and the finally block: the token and both lists arrive
LoadSucceeds(tenantsData, subscriptionsData) ==
    /\ loads # <<>>
    /\ LET after == LoadedSelection(Head(loads), tenantsData,
                                    subscriptionsData)
       IN  /\ selectedTenant' = after.selectedTenant
           /\ selectedSubscriptions' = after.selectedSubscriptions
    /\ tenants' = tenantsData
    /\ subscriptions' = subscriptionsData
    /\ loadingAccounts' = FALSE
    /\ loads' = Tail(loads)
    /\ settled' = <<[op |-> "load", ok |-> TRUE]>>
    /\ UNCHANGED <<account, queries, loading, stateError, stateItems,
                   dashRest>>

\* a load whose failure leaves `loadingAccounts` set
LoadFailsNoFinally(err) ==
    /\ loads # <<>>
    /\ stateError' = <<[hint |-> ErrorHint(err), cause |-> err]>>
    /\ loads' = Tail(loads)
    /\ settled' = <<[op |-> "load", ok |-> FALSE]>>
    /\ UNCHANGED <<account, tenants, subscriptions, selectedTenant,
                   loadingAccounts, selectedSubscriptions, queries, loading,
                   stateItems, dashRest>>

\* lines 173-186: the token or one of the two requests fails
LoadFails(err) ==
    /\ loads # <<>>
    /\ stateError' = <<[hint |-> ErrorHint(err), cause |-> err]>>
    /\ loadingAccounts' = FALSE
    /\ loads' = Tail(loads)
    /\ settled' = <<[op |-> "load", ok |-> FALSE]>>
    /\ UNCHANGED <<account, tenants, subscriptions, selectedTenant,
                   selectedSubscriptions, queries, loading, stateItems,
                   dashRest>>

\* lines 190-201, from an item of the tenant dropdown (lines 396-409)
HandleTenantChange(tenant) ==
    /\ ~loadingAccounts
    /\ \E i \in 1..Len(tenants) : tenants[i] = tenant
    /\ selectedTenant' = <<tenant>>
    /\ stateItems' = <<>>
    /\ LET tenantSubscriptions == OfTenant(subscriptions, tenant)
       IN  selectedSubscriptions' =
              IF Len(tenantSubscriptions) > 0
                THEN <<tenantSubscriptions[1]>> ELSE <<>>
    /\ UNCHANGED <<account, tenants, subscriptions, loadingAccounts, loads,
                   queries, settled, loading, stateError, dashRest>>

\* lines 204-216, from a subscription card (line 490)
HandleSubscriptionChange(subscription) ==
    /\ \E i \in 1..Len(getSubscriptionsForSelectedTenant) :
          getSubscriptionsForSelectedTenant[i] = subscription
    /\ selectedSubscriptions' =
          ToggleSubscription(selectedSubscriptions, subscription)
    /\ stateItems' = <<>>
    /\ UNCHANGED <<account, tenants, subscriptions, selectedTenant,
                   loadingAccounts, loads, queries, settled, loading,
                   stateError, dashRest>>

\* lines 219-233, from the Select All box (lines 438-465)
HandleSelectAllSubscriptions ==
    /\ Len(getSubscriptionsForSelectedTenant) > 0
    /\ LET allSubscriptions == getSubscriptionsForSelectedTenant
           allSelected ==
              \A i \in 1..Len(allSubscriptions) :
                 SomeWithId(selectedSubscriptions, allSubscriptions[i].id)
       IN  selectedSubscriptions' =
              IF allSelected THEN <<>> ELSE allSubscriptions
    /\ stateItems' = <<>>
    /\ UNCHANGED <<account, tenants, subscriptions, selectedTenant,
                   loadingAccounts, loads, queries, settled, loading,
                   stateError, dashRest>>

\* a Query button that stays enabled while a query runs
DashQueryStartWhileLoading ==
    /\ Len(selectedSubscriptions) > 0 /\ account
    /\ Len(queries) < MaxQueries
    /\ loading' = TRUE
    /\ stateError' = <<>>
    /\ queries' = Append(queries, selectedSubscriptions)
    /\ settled' = <<>>
    /\ UNCHANGED <<account, tenants, subscriptions, selectedTenant,
                   selectedSubscriptions, loadingAccounts, loads,
                   stateItems, dashRest>>

\* the Query button (lines 550-554) calls onQuery: lines 253-256
DashQueryStart ==
    /\ Len(selectedSubscriptions) > 0 /\ account
    /\ ~loading
    /\ Len(queries) < MaxQueries
    /\ loading' = TRUE
    /\ stateError' = <<>>
    /\ queries' = Append(queries, selectedSubscriptions)
    /\ settled' = <<>>
    /\ UNCHANGED <<account, tenants, subscriptions, selectedTenant,
                   selectedSubscriptions, loadingAccounts, loads,
                   stateItems, dashRest>>

\* lines 317 and 331: the n-th running query stores its list, which holds
\* resources or none
DashQuerySucceeds(n, some) ==
    /\ n \in 1..Len(queries)
    /\ stateItems' = IF some THEN ItemsOf(queries[n]) ELSE <<>>
    /\ loading' = FALSE
    /\ queries' = Without(queries, n)
    /\ settled' = <<[op |-> "query", ok |-> TRUE]>>
    /\ UNCHANGED <<account, tenants, subscriptions, selectedTenant,
                   selectedSubscriptions, loadingAccounts, loads,
                   stateError, dashRest>>

\* lines 319-332: the n-th running query fails
DashQueryFails(n, err) ==
    /\ n \in 1..Len(queries)
    /\ stateError' = <<[hint |-> ErrorHint(err), cause |-> err]>>
    /\ loading' = FALSE
    /\ queries' = Without(queries, n)
    /\ settled' = <<[op |-> "query", ok |-> FALSE]>>
    /\ UNCHANGED <<account, tenants, subscriptions, selectedTenant,
                   selectedSubscriptions, loadingAccounts, loads,
                   stateItems, dashRest>>

\* the Dashboard as it is mounted
DashInit ==
    /\ FetchIdle
    /\ DeleteIdle
    /\ QueryIdle
    /\ XIdle

\* a running load ends
LoadSettles ==
    \/ \E tenantsData \in TenantLists, subscriptionsData \in SubscriptionLists :
          LoadSucceeds(tenantsData, subscriptionsData)
    \/ \E err \in DashErrors : LoadFails(err)

\* a running query ends
QuerySettles ==
    \/ \E n \in 1..Len(queries), some \in BOOLEAN : DashQuerySucceeds(n, some)
    \/ \E n \in 1..Len(queries), err \in DashErrors : DashQueryFails(n, err)

DashNext ==
    \/ AccountEffect
    \/ LoadStart
    \/ LoadSettles
    \/ \E i \in 1..Len(tenants) : HandleTenantChange(tenants[i])
    \/ \E i \in 1..Len(subscriptions) :
          HandleSubscriptionChange(subscriptions[i])
    \/ HandleSelectAllSubscriptions
    \/ DashQueryStart
    \/ QuerySettles

SpecDash == DashInit /\ [][DashNext]_vars

\* every request and every popup of a running load or query settles
SpecDashFair == SpecDash /\ WF_vars(LoadSettles) /\ WF_vars(QuerySettles)

(* Dashboard, the account selection: the claims *)

\* the message of the error the page shows is not empty
ErrorShown == stateError # <<>> /\ stateError[1].cause.body # ""

\* C21: a query that was started ends with `loading` false and a load of
\* the accounts ends with `loadingAccounts` false, whether it succeeds or
\* fails, given that every request and popup settles; one that fails
\* leaves a non-empty error message. With the flag reset the button is
\* enabled again: Refresh after a load, Query after a query unless the
\* selection was emptied meanwhile.
C21_LoadingAlwaysReset ==
    /\ loading ~> ~loading
    /\ loadingAccounts ~> ~loadingAccounts
    /\ [][(settled' # settled /\ settled' # <<>>) =>
            LET ended == settled'[1]
            IN  /\ ended.op = "query" => ~loading'
                /\ ended.op = "load" => (~loadingAccounts' /\ account')
                /\ ~ended.ok => ErrorShown']_vars

\* a query has failed: the flag is reset, the message is shown, and the
\* subscription it ran over is still selected, so Query can be pressed
C21_Witness ==
    /\ settled = <<[op |-> "query", ok |-> FALSE]>>
    /\ ~loading
    /\ ErrorShown
    /\ stateError[1].hint = "Permission denied"
    /\ selectedSubscriptions = <<SubS1>>
    /\ ~loadingAccounts

\* C22: whenever a tenant is selected, every selected subscription has
\* that tenant's id as its tenantId, and so has every subscription a
\* running query fetches.
C22_SelectionWithinTenant ==
    selectedTenant # <<>> =>
       \A i \in 1..Len(selectedSubscriptions) :
          selectedSubscriptions[i].tenantId = selectedTenant[1].id

\* C24: a result list that is not empty is the result of a query over
\* the subscriptions now selected: the handlers that change the selection
\* empty it and a query started before the change does not fill it again.
C24_ItemsOfCurrentSelection ==
    stateItems # <<>> => stateItems = ItemsOf(selectedSubscriptions)

\* C29: a query is started only with a subscription selected, an account
\* signed in and no query loading: at most one query runs at a time, and
\* the subscriptions it runs over are never none.
C29_OneQueryAtATime ==
    /\ [](/\ Len(queries) <= 1
          /\ \A n \in 1..Len(queries) : Len(queries[n]) > 0
          /\ queries # <<>> => (loading /\ account))
    /\ [][Len(queries') > Len(queries) =>
            /\ Len(selectedSubscriptions) > 0
            /\ account
            /\ ~loading
            /\ queries = <<>>
            /\ queries' = <<selectedSubscriptions>>]_vars

\* a query over two subscriptions runs, and the selection has been
\* emptied since it was started
C29_Witness ==
    /\ Len(queries) = 1
    /\ queries[1] = <<SubS1, SubS2>>
    /\ loading
    /\ selectedSubscriptions = <<>>

\* the ids of a list of subscriptions
IdsOf(list) == { list[i].id : i \in 1..Len(list) }

\* no two entries of the list have the same id
DistinctIds(list) ==
    \A i, j \in 1..Len(list) : list[i].id = list[j].id => i = j

\* C30: the selected subscriptions never hold one id twice, and neither
\* does the list a running query fetches; a toggle of a subscription that
\* is selected takes it out and leaves the others, a toggle of one that is
\* not selected adds it.
C30_NoDuplicateSelection ==
    /\ DistinctIds(selectedSubscriptions)
    /\ \A n \in 1..Len(queries) : DistinctIds(queries[n])
    /\ \A i \in 1..Len(getSubscriptionsForSelectedTenant) :
          LET subscription == getSubscriptionsForSelectedTenant[i]
              toggled == ToggleSubscription(selectedSubscriptions,
                                            subscription)
          IN  /\ DistinctIds(toggled)
              /\ IdsOf(toggled) =
                   IF subscription.id \in IdsOf(selectedSubscriptions)
                     THEN IdsOf(selectedSubscriptions) \ {subscription.id}
                     ELSE IdsOf(selectedSubscriptions)
                             \cup {subscription.id}

\* s2 was added to the selection, then s1 was taken out and added again,
\* and a query over the two runs
C30_Witness ==
    /\ selectedSubscriptions = <<SubS2, SubS1>>
    /\ queries = <<selectedSubscriptions>>

====
